---- MODULE Spec2Model ----
(***************************************************************************)
(* A model of the WireGuard tunnel core of dspeyrer/net: the replay        *)
(* window (tunnel/window.rs), the sessions (tunnel/state.rs), the per-peer *)
(* session wheel and handlers (tunnel/mod.rs, lib.rs) and the timer state  *)
(* (tunnel/timers.rs); and of the IP layer of the stack above it: the      *)
(* fragment reassembler (net/ip/fragment.rs) and the IPv4 header with its   *)
(* checksum (net/ip/v4.rs, net/ip/checksum.rs) and the UDP port map         *)
(* (net/udp/mod.rs).                                                       *)
(*                                                                         *)
(* Times are in milliseconds.  Session keys are abstract: the key pair a   *)
(* handshake derives is named by the session index this side chose for     *)
(* that handshake, and a Data packet decrypts under a session exactly when *)
(* it was sealed with that session's key.                                  *)
(***************************************************************************)
EXTENDS Integers, Sequences, FiniteSets, TLC

VARIABLES
    win,        \* SpecWindow: the Window under test
    seen,       \* SpecWindow: reference, the set of counters accepted so far
    fed,        \* SpecWindow: every counter passed to guard so far
    gres,       \* SpecWindow: the last guard call [n, fok, res, ran]
    calls,      \* SpecWindow: number of guard calls made
    now,        \* cx.now(), in ms since the runtime started
    wheel,      \* Peer.wheel: [prev, pair, next, sent]
    queue,      \* Peer.queue: payloads waiting for a session
    timers,     \* Peer.timers and the runtime's pending timers behind them
    hs,         \* Peer.hs: [timestamp, idx_cur]
    out,        \* packets handed to the link by the last handler, in order
    ev,         \* the last handler run and what it was given
    nwritten,   \* number of payloads the application has submitted
    quiet,      \* when a payload was first received since this side last sent
    limits,     \* how far the run is followed: [time, idx]
    hist,       \* None, or what was sent and accepted so far: [used, taken]
    frags,      \* fragment::State.fragments of the one key; <<>>: no entry
    fev,        \* the last handle_fragment call: [res, buf]
    emitted,    \* the last write_v4 call: [in, out]
    verdict,    \* the checksum taken last over the emitted header: [flip, out]
    udp,        \* udp::Interface: [nxt, map, block, neph]
    uev,        \* the last call into udp::Interface and its result
    socks,      \* the udp::Socket handles: [live, owner, pending, nbind, nclone, last]
    lev,        \* the last datagram read from the link and what became of it
    rt,         \* runtime::exec: the event loop and the EXIT flag
    io          \* runtime State, the link's fd: [events, queue, wire, nw, last]

wvars == <<win, seen, fed, gres, calls>>
pvars == <<now, wheel, queue, timers, hs, out, ev, nwritten, quiet, limits,
           hist>>

fvars == <<frags, fev>>
cvars == <<emitted, verdict>>
uvars == <<udp, uev, socks>>
xvars == <<lev, rt, io>>
nvars == <<fvars, cvars, uvars, xvars>>

vars == <<win, seen, fed, gres, calls,
          now, wheel, queue, timers, hs, out, ev, nwritten, quiet, limits,
          hist,
          frags, fev, emitted, verdict, udp, uev, socks, lev, rt, io>>

None == [none |-> TRUE]

Max(S) == CHOOSE x \in S : \A y \in S : y <= x
Min(S) == CHOOSE x \in S : \A y \in S : x <= y

(***************************************************************************)
(* tunnel/window.rs                                                        *)
(***************************************************************************)

\* const WORD_LEN: u64 = Word::BITS
WORD_LEN == 64
\* const LEN: usize = 128
LEN == 128

\* The bit position mask(n) selects inside its word: 1 << (n % WORD_LEN).
mask(n) == n % WORD_LEN

\* let index = n / WORD_LEN
WordIndex(n) == n \div WORD_LEN

\* self.bits[index as usize % LEN]
Slot(index) == index % LEN

\* A window is [bits, head]: bits is the set of <<slot, bit>> pairs that are
\* set in the bit vector, head the highest seen word index.
WindowEmpty == [bits |-> {}, head |-> 0]

WindowNew(n) ==
    [bits |-> {<<Slot(WordIndex(n)), mask(n)>>}, head |-> WordIndex(n)]

\* self.bits[index % LEN] & mask(n) != 0
BitSet(w, n) == <<Slot(WordIndex(n)), mask(n)>> \in w.bits

\* Some(s) if s >= LEN
TooOldOffByOne(w, index) == w.head - index >= LEN - 1
TooOld(w, index) == w.head - index >= LEN

\* while self.head < index { self.head += 1; self.bits[self.head % LEN] = 0 }
Slide(w, index) ==
    LET cleared == {Slot(k) : k \in
                      (IF index - w.head >= LEN THEN 0 .. (LEN - 1)
                       ELSE (w.head + 1) .. index)}
    IN  [bits |-> {b \in w.bits : b[1] \notin cleared}, head |-> index]

\* self.bits[index % LEN] |= mask(n)
MarkSeenNot(w, n) == w
MarkSeen(w, n) ==
    [w EXCEPT !.bits = @ \cup {<<Slot(WordIndex(n)), mask(n)>>}]

\* guard that moves the head before it runs the action
guardSlidesFirst(w, n, fok) ==
    LET index == WordIndex(n) IN
    IF w.head < index
    THEN IF fok
         THEN [win |-> MarkSeen(Slide(w, index), n), res |-> "Ok", ran |-> TRUE]
         ELSE [win |-> Slide(w, index), res |-> "ActionErr", ran |-> TRUE]
    ELSE IF TooOld(w, index)
    THEN [win |-> w, res |-> "TooOld", ran |-> FALSE]
    ELSE IF BitSet(w, n)
    THEN [win |-> w, res |-> "Replay", ran |-> FALSE]
    ELSE IF fok
         THEN [win |-> MarkSeen(w, n), res |-> "Ok", ran |-> TRUE]
         ELSE [win |-> w, res |-> "ActionErr", ran |-> TRUE]

\* Window::guard(n, f); fok is whether the action f returns Ok.  The result
\* is the window afterwards, the outcome, and whether f was run.
guard(w, n, fok) ==
    LET index == WordIndex(n) IN
    IF w.head < index
    THEN IF fok
         THEN [win |-> MarkSeen(Slide(w, index), n), res |-> "Ok", ran |-> TRUE]
         ELSE [win |-> w, res |-> "ActionErr", ran |-> TRUE]
    ELSE IF TooOld(w, index)
    THEN [win |-> w, res |-> "TooOld", ran |-> FALSE]
    ELSE IF BitSet(w, n)
    THEN [win |-> w, res |-> "Replay", ran |-> FALSE]
    ELSE IF fok
         THEN [win |-> MarkSeen(w, n), res |-> "Ok", ran |-> TRUE]
         ELSE [win |-> w, res |-> "ActionErr", ran |-> TRUE]

(***************************************************************************)
(* u64 counters.  A u64 is <<a, b, c>> = a * 2^44 + b * 2^22 + c with      *)
(* a < 2^20 and b, c < 2^22, so that the thresholds of tunnel/state.rs are *)
(* the values the program compares against.                                *)
(***************************************************************************)

LimbBase == 2^22
TopBase == 2^20

U64FromNat(n) == <<0, 0, n>>
U64ToNat(x) == x[3]
U64Small(x) == x[1] = 0 /\ x[2] = 0

\* x + 1 (mod 2^64)
U64Inc(x) ==
    IF x[3] + 1 < LimbBase THEN <<x[1], x[2], x[3] + 1>>
    ELSE IF x[2] + 1 < LimbBase THEN <<x[1], x[2] + 1, 0>>
    ELSE IF x[1] + 1 < TopBase THEN <<x[1] + 1, 0, 0>>
    ELSE <<0, 0, 0>>

\* x >= y
U64Ge(x, y) ==
    \/ x[1] > y[1]
    \/ x[1] = y[1] /\ x[2] > y[2]
    \/ x[1] = y[1] /\ x[2] = y[2] /\ x[3] >= y[3]

\* u64::MAX
U64Max == <<TopBase - 1, LimbBase - 1, LimbBase - 1>>

(***************************************************************************)
(* tunnel/timers.rs and tunnel/state.rs: constants (durations in ms)       *)
(***************************************************************************)

REKEY_TIMEOUT == 5000
REKEY_ATTEMPT_TIME == 90000
KEEPALIVE_TIMEOUT == 10000
REKEY_AFTER_TIME == 120000
REJECT_AFTER_TIME == 180000

\* Timers::jitter: gen_range(0..333) ms; the two ends of the range.
JitterChoices == {0, 332}

\* 2u64.pow(60)
REKEY_AFTER_MESSAGES == <<2^16, 0, 0>>
\* u64::MAX - 2u64.pow(13)
REJECT_AFTER_MESSAGES == <<TopBase - 1, LimbBase - 1, LimbBase - 1 - 2^13>>

(***************************************************************************)
(* The peer as one record, threaded through the handlers.  Besides the     *)
(* program state it carries the handler's inputs: the time, the jitter the *)
(* random generator returns, and which of its link writes fails (failAt,   *)
(* 0 for none; nw counts the writes made so far).                          *)
(***************************************************************************)

PeerState(jit, failAt) ==
    [wheel |-> wheel, queue |-> queue, timers |-> timers, hs |-> hs,
     out |-> <<>>, log |-> "ok", now |-> now, jit |-> jit,
     failAt |-> failAt, nw |-> 0]

Ok(st) == [st |-> st, ok |-> TRUE]
Err(st, why) == [st |-> [st EXCEPT !.log = why], ok |-> FALSE]

\* Io::write: the closure has run and built pkt; send() then either takes the
\* datagram (or the runtime queues it) or fails.
LinkWrite(st, pkt) ==
    IF st.nw + 1 = st.failAt
    THEN Err([st EXCEPT !.nw = @ + 1], "io")
    ELSE Ok([st EXCEPT !.nw = @ + 1, !.out = Append(@, pkt)])

(***************************************************************************)
(* tunnel/timers.rs                                                        *)
(***************************************************************************)

\* timer_max!(&mut self.rekey, cx.now() + duration, ..): a pending max timer
\* is moved to the later deadline, otherwise a new one is added.
reset_rekey(st, duration) ==
    LET at == st.now + duration
        cur == st.timers.rekey
    IN  [st EXCEPT !.timers.rekey =
            IF cur = None THEN [at |-> at]
            ELSE [at |-> IF cur.at >= at THEN cur.at ELSE at]]

\* A keepalive key names the fixed timer created for deadline at; the timer
\* is pending while at is in kaPending.
reset_keepalive(st, duration) ==
    IF st.timers.keepalive = None
    THEN [st EXCEPT !.timers.keepalive = [at |-> st.now + duration],
                    !.timers.kaPending = @ \cup {st.now + duration}]
    ELSE st

\* cx.timer_del(self.keepalive)
timer_del_keepalive(st) ==
    IF st.timers.keepalive = None THEN st
    ELSE [st EXCEPT !.timers.kaPending = @ \ {st.timers.keepalive.at}]

is_rekeying(st) == st.timers.rekey_start # None

rekey_elapsed(st) ==
    /\ st.timers.rekey_start # None
    /\ st.now - st.timers.rekey_start.at >= REKEY_ATTEMPT_TIME

\* send_data that treats every packet as a keepalive
send_dataSlotOnly(st, is_keepalive) ==
    [st EXCEPT !.timers.keepalive = None]

\* Timers::send_data
send_data(st, is_keepalive) ==
    LET a == IF is_keepalive THEN st
             ELSE reset_rekey(timer_del_keepalive(st),
                              KEEPALIVE_TIMEOUT + REKEY_TIMEOUT)
    IN  [a EXCEPT !.timers.keepalive = None]

recv_data(st, is_keepalive) ==
    LET a == [st EXCEPT !.timers.rekey = None]
    IN  IF is_keepalive THEN a ELSE reset_keepalive(a, KEEPALIVE_TIMEOUT)

send_init(st) ==
    LET a == IF st.timers.rekey_start = None
             THEN [st EXCEPT !.timers.rekey_start = [at |-> st.now]]
             ELSE st
    IN  reset_rekey(a, REKEY_TIMEOUT + st.jit)

recv_resp(st) ==
    reset_keepalive([st EXCEPT !.timers.rekey_start = None,
                               !.timers.rekey = None], 0)

(***************************************************************************)
(* tunnel/state.rs                                                         *)
(***************************************************************************)

\* open(key, ctr, buf): the AEAD tag verifies exactly under the sealing key.
open(key, msg) == msg.key = key

\* Simplex::open_checked.  A received counter below 2^22 is handed to the
\* window as it is.
open_checked(sx, st, msg) ==
    LET elapsed == st.now - sx.time IN
    IF elapsed >= REJECT_AFTER_TIME \/ U64Ge(msg.ctr, REJECT_AFTER_MESSAGES)
    THEN [sx |-> sx, res |-> "expired", elapsed |-> elapsed]
    ELSE LET g == guard(sx.win, U64ToNat(msg.ctr), open(sx.key, msg))
         IN  [sx |-> [sx EXCEPT !.win = g.win], res |-> g.res,
              elapsed |-> elapsed]

\* Tunnel::new
TunnelNew(st, key, sidx) ==
    [recv |-> [key |-> key, win |-> WindowEmpty, time |-> st.now],
     role |-> "Initiator", send |-> key, sctr |-> U64FromNat(0),
     sidx |-> sidx]

\* Tunnel::open: the rekey flag of a successful open
RecvRekeyDue(tun, elapsed) ==
    /\ tun.role = "Initiator"
    /\ elapsed >= REJECT_AFTER_TIME - KEEPALIVE_TIMEOUT - REKEY_TIMEOUT

\* is_send_expired comparing the counter itself
is_send_expiredNoInc(tun, st) ==
    \/ st.now - tun.recv.time >= REJECT_AFTER_TIME
    \/ U64Ge(tun.sctr, REJECT_AFTER_MESSAGES)

\* Tunnel::is_send_expired
is_send_expired(tun, st) ==
    \/ st.now - tun.recv.time >= REJECT_AFTER_TIME
    \/ U64Ge(U64Inc(tun.sctr), REJECT_AFTER_MESSAGES)

\* SendRekeyDue without the counter rule
SendRekeyDueByAge(tun, st) ==
    tun.role = "Initiator" /\ st.now - tun.recv.time >= REKEY_AFTER_TIME

\* Tunnel::send: the rekey flag, computed from the counter the packet takes
SendRekeyDue(tun, st) ==
    \/ tun.role = "Initiator" /\ st.now - tun.recv.time >= REKEY_AFTER_TIME
    \/ U64Ge(tun.sctr, REKEY_AFTER_MESSAGES)

\* Tunnel::send: the Data header and payload p (0 for a keepalive)
DataPacket(tun, p) ==
    [t |-> "Data", idx |-> tun.sidx, ctr |-> tun.sctr, key |-> tun.send,
     pl |-> p]

\* Next::new
NextNew(st, s_idx) ==
    [sidx |-> s_idx, skey |-> s_idx, rkey |-> s_idx, time |-> st.now]

\* Next::recv: the tunnel a pending responder session turns into
NextRecv(nx, msg) ==
    [recv |-> [key |-> nx.rkey, win |-> WindowNew(U64ToNat(msg.ctr)),
               time |-> nx.time],
     role |-> "Responder", send |-> nx.skey, sctr |-> U64FromNat(0),
     sidx |-> nx.sidx]

(***************************************************************************)
(* tunnel/mod.rs                                                           *)
(***************************************************************************)

\* Noise::new_idx
new_idx(st) == [st EXCEPT !.hs.idx_cur = @ + 1]

\* Noise::create_initiation: the index is taken inside the write closure
NoiseCreateInitiation(st) ==
    LET idx == st.hs.idx_cur IN
    LinkWrite(new_idx(st), [t |-> "Init", idx |-> idx, ts |-> st.now])

\* Peer::create_initiation
PeerCreateInitiation(st) ==
    LET r == NoiseCreateInitiation(st) IN
    IF ~r.ok THEN r
    ELSE Ok(send_init([r.st EXCEPT !.wheel.sent =
                          [idx |-> st.hs.idx_cur]]))

\* Peer::rekey
PeerRekey(st) ==
    IF ~is_rekeying(st) THEN PeerCreateInitiation(st) ELSE Ok(st)

\* Peer::write without the is_send_expired test
PeerWriteUnchecked(st, p, is_keepalive) ==
    LET pair == st.wheel.pair IN
    IF pair # None
    THEN LET sent == [st EXCEPT !.wheel.pair.tun.sctr = U64Inc(@)]
             w == LinkWrite(sent, DataPacket(pair.tun, p))
         IN  IF ~w.ok THEN w
             ELSE LET a == send_data(w.st, is_keepalive)
                  IN  IF SendRekeyDue(pair.tun, st) THEN PeerRekey(a)
                      ELSE Ok(a)
    ELSE IF ~is_keepalive
    THEN PeerRekey([st EXCEPT !.wheel.pair = None,
                              !.queue = Append(@, p)])
    ELSE Err(st, "keepalive_failed")

\* Peer::write
PeerWrite(st, p, is_keepalive) ==
    LET pair == st.wheel.pair IN
    IF pair # None /\ ~is_send_expired(pair.tun, st)
    THEN LET sent == [st EXCEPT !.wheel.pair.tun.sctr = U64Inc(@)]
             w == LinkWrite(sent, DataPacket(pair.tun, p))
         IN  IF ~w.ok THEN w
             ELSE LET a == send_data(w.st, is_keepalive)
                  IN  IF SendRekeyDue(pair.tun, st) THEN PeerRekey(a)
                      ELSE Ok(a)
    ELSE IF ~is_keepalive
    THEN PeerRekey([st EXCEPT !.wheel.pair = None,
                              !.queue = Append(@, p)])
    ELSE Err(st, "keepalive_failed")

\* A drain that sends nothing and keeps the queue
DrainNone(st) == Ok(st)

\* for f in mem::take(&mut self.queue) { self.write(cx, i, f, false)?; }
RECURSIVE DrainItems(_, _)
DrainItems(st, items) ==
    IF items = <<>> THEN Ok(st)
    ELSE LET r == PeerWrite(st, Head(items), FALSE)
         IN  IF r.ok THEN DrainItems(r.st, Tail(items)) ELSE r

Drain(st) == DrainItems([st EXCEPT !.queue = <<>>], st.queue)

\* self.wheel.pair.take().map(|(id, p)| (id, p.recv))
TakePairRecv(st) ==
    IF st.wheel.pair = None THEN None
    ELSE [idx |-> st.wheel.pair.idx, sx |-> st.wheel.pair.tun.recv]

\* handle_response that leaves wheel.prev alone
PeerHandleResponseKeepPrev(st, msg) ==
    LET sent == st.wheel.sent IN
    IF sent = None \/ sent.idx # msg.rcv_idx THEN Err(st, "no_sent")
    ELSE LET a == [st EXCEPT !.wheel.pair = None]
         IN  IF ~msg.auth THEN Err(a, "bad_response")
             ELSE Drain(recv_resp(
                    [a EXCEPT !.wheel.pair =
                                 [idx |-> sent.idx,
                                  tun |-> TunnelNew(st, sent.idx, msg.idx)],
                              !.wheel.sent = None]))

\* Peer::handle_response; msg.auth is whether consume_response opens it
PeerHandleResponse(st, msg) ==
    LET sent == st.wheel.sent IN
    IF sent = None \/ sent.idx # msg.rcv_idx THEN Err(st, "no_sent")
    ELSE LET a == [st EXCEPT !.wheel.prev = TakePairRecv(st),
                             !.wheel.pair = None]
         IN  IF ~msg.auth THEN Err(a, "bad_response")
             ELSE Drain(recv_resp(
                    [a EXCEPT !.wheel.pair =
                                 [idx |-> sent.idx,
                                  tun |-> TunnelNew(st, sent.idx, msg.idx)],
                              !.wheel.sent = None]))

\* update_timestamp with the equal timestamp let through
update_timestampLax(st, ts) ==
    IF st.hs.timestamp # None /\ ts < st.hs.timestamp.ts
    THEN Err(st, "timestamp_expired")
    ELSE Ok([st EXCEPT !.hs.timestamp = [ts |-> ts]])

\* Noise::update_timestamp
update_timestamp(st, ts) ==
    IF st.hs.timestamp # None /\ ts <= st.hs.timestamp.ts
    THEN Err(st, "timestamp_expired")
    ELSE Ok([st EXCEPT !.hs.timestamp = [ts |-> ts]])

\* Noise::create_response
NoiseCreateResponse(st, rcv_idx) ==
    LET idx == st.hs.idx_cur IN
    LinkWrite(new_idx(st),
              [t |-> "Resp", idx |-> idx, rcv_idx |-> rcv_idx])

\* Peer::create_response (Timers::send_resp is a no-op)
PeerCreateResponse(st, idx) ==
    LET r == NoiseCreateResponse(st, idx) IN
    IF ~r.ok THEN r
    ELSE Ok([r.st EXCEPT !.wheel.next =
                [idx |-> idx, nx |-> NextNew(st, st.hs.idx_cur)]])

\* Interface::handle_initiation
HandleInitiation(st, msg) ==
    LET u == update_timestamp(st, msg.ts) IN
    IF ~u.ok THEN u ELSE PeerCreateResponse(u.st, msg.idx)

\* Peer::handle_data; msg.ka is whether the opened payload is empty
PeerHandleData(st, msg) ==
    LET wh == st.wheel IN
    IF wh.pair # None /\ msg.idx = wh.pair.idx
    THEN LET o == open_checked(wh.pair.tun.recv, st, msg)
             a == [st EXCEPT !.wheel.pair.tun.recv = o.sx]
         IN  IF o.res # "Ok" THEN Err(st, o.res)
             ELSE IF RecvRekeyDue(wh.pair.tun, o.elapsed)
             THEN LET r == PeerRekey(a)
                  IN  IF ~r.ok THEN r ELSE Ok(recv_data(r.st, msg.ka))
             ELSE Ok(recv_data(a, msg.ka))
    ELSE IF wh.prev # None /\ msg.idx = wh.prev.idx
    THEN LET o == open_checked(wh.prev.sx, st, msg)
         IN  IF o.res # "Ok" THEN Err(st, o.res)
             ELSE Ok([st EXCEPT !.wheel.prev.sx = o.sx])
    ELSE IF wh.next # None /\ msg.idx = wh.next.idx
    THEN IF ~open(wh.next.nx.rkey, msg) THEN Err(st, "ActionErr")
         ELSE Drain([st EXCEPT !.wheel.prev = TakePairRecv(st),
                               !.wheel.pair =
                                   [idx |-> wh.next.idx,
                                    tun |-> NextRecv(wh.next.nx, msg)]])
    ELSE Err(st, "no_key")

(***************************************************************************)
(* lib.rs: the handlers the runtime calls, as actions.  Each takes the     *)
(* peer as it is, runs the whole handler and stores what it leaves.        *)
(***************************************************************************)

MaxTime == 10000
MaxPayloads == 1
MaxIdx == 2
MaxCtr == 1

TickSteps == {5000}
RemoteIdxChoices == {2}
TsChoices == {1, 2}
CtrInputs == {U64FromNat(n) : n \in 0 .. MaxCtr}
\* the sealing key of a received Data packet: a session key, or 0 for none
KeyInputs == 0 .. MaxIdx
\* which link write of a handler fails: 0 for none
LinkFailures == 0 .. MaxPayloads + 1

\* Peer::init: an empty wheel, no timers, no timestamp.
PeerFresh ==
    /\ now = 0
    /\ wheel = [prev |-> None, pair |-> None, next |-> None, sent |-> None]
    /\ queue = <<>>
    /\ timers = [rekey |-> None, keepalive |-> None, kaPending |-> {},
                 rekey_start |-> None]
    /\ hs = [timestamp |-> None, idx_cur |-> 1]
    /\ out = <<>>
    /\ ev = None
    /\ nwritten = 0
    /\ quiet = None
    /\ hist = None

\* A link write can only fail if the handler gets to it.
FailChoices(F, r0) == {f \in F : f <= r0.st.nw}
\* The jitter matters when the handler sends an Initiation.
JitChoices(r0) ==
    IF \E i \in 1 .. Len(r0.st.out) : r0.st.out[i].t = "Init"
    THEN JitterChoices ELSE {0}

\* The handler's run under jitter j and failure f; r0 is the run under none.
Under(j, f, r0, r) == IF j = 0 /\ f = 0 THEN r0 ELSE r

Payloads(pkts) ==
    {pkts[i].pl : i \in {j \in 1 .. Len(pkts) :
                           pkts[j].t = "Data" /\ pkts[j].pl # 0}}

\* The history of the run, where it is followed: used, the (send key,
\* counter) of every Data packet handed to the link; taken, the (receive
\* key, counter) of every Data packet with a payload that was opened and
\* forwarded to the IP layer (Wireguard::data).  pkts
\* are the packets of the handler that has run, got what it accepted.
Track(pkts, got) ==
    IF hist = None THEN None
    ELSE [used |-> hist.used \cup
                      {<<pkts[i].key, pkts[i].ctr>> :
                          i \in {j \in 1 .. Len(pkts) : pkts[j].t = "Data"}},
          taken |-> hist.taken \cup got]

\* The handler has run: r is what it leaves.  quiet is the time of the first
\* non-keepalive Data packet received on pair since this side last wrote to
\* the link; heard tells that r is the handling of such a packet.
Commit(res, op, heard) ==
    \E r \in {res} :
       /\ r.st.hs.idx_cur <= limits.idx + 1
       /\ wheel' = r.st.wheel
       /\ queue' = r.st.queue
       /\ timers' = r.st.timers
       /\ hs' = r.st.hs
       /\ out' = r.st.out
       /\ ev' = [op |-> op, res |-> IF r.ok THEN "ok" ELSE r.st.log]
       /\ quiet' = IF r.st.nw > 0 THEN None
                   ELSE IF heard /\ r.ok /\ quiet = None THEN [at |-> now]
                   ELSE quiet
       /\ UNCHANGED <<now, limits, wvars, nvars>>

\* Wireguard::write.  F: the link failures that may happen.
AppWrite(F) ==
    /\ nwritten < MaxPayloads
    /\ nwritten' = nwritten + 1
    /\ \E r0 \in {PeerWrite(PeerState(0, 0), nwritten + 1, FALSE)} :
       \E f \in FailChoices(F, r0), j \in JitChoices(r0) :
          Commit(Under(j, f, r0,
                       PeerWrite(PeerState(j, f), nwritten + 1, FALSE)),
                 "write", FALSE)
    /\ hist' = Track(out', {})

\* Wireguard::initiation, for a well-formed Initiation of the peer
RecvInitiation(msg, F) ==
    /\ \E r0 \in {HandleInitiation(PeerState(0, 0), msg)} :
       \E f \in FailChoices(F, r0) :
          Commit(Under(0, f, r0, HandleInitiation(PeerState(0, f), msg)),
                 "initiation", FALSE)
    /\ UNCHANGED nwritten
    /\ hist' = Track(out', {})

\* Wireguard::response, for a Response with valid macs
RecvResponse(msg, F) ==
    /\ \E r0 \in {PeerHandleResponse(PeerState(0, 0), msg)} :
       \E f \in FailChoices(F, r0), j \in JitChoices(r0) :
          Commit(Under(j, f, r0, PeerHandleResponse(PeerState(j, f), msg)),
                 "response", FALSE)
    /\ UNCHANGED nwritten
    /\ hist' = Track(out', {})

\* The packet is addressed to the current session
OnPair(msg) == wheel.pair # None /\ msg.idx = wheel.pair.idx

\* Wireguard::data
RecvData(msg, F) ==
    /\ \E r0 \in {PeerHandleData(PeerState(0, 0), msg)} :
       \E f \in FailChoices(F, r0), j \in JitChoices(r0) :
          Commit(Under(j, f, r0, PeerHandleData(PeerState(j, f), msg)),
                 "data", OnPair(msg) /\ ~msg.ka)
    /\ UNCHANGED nwritten
    /\ hist' = Track(out', IF ev'.res = "ok" /\ ~msg.ka
                           THEN {<<msg.key, msg.ctr>>} ELSE {})

\* Wireguard::rekey, run by the rekey timer when its deadline is reached
RekeyFire(F) ==
    /\ timers.rekey # None
    /\ timers.rekey.at <= now
    /\ \E f \in F \cap {0, 1}, j \in JitterChoices :
          LET st == [PeerState(j, f) EXCEPT !.timers.rekey = None]
          IN  Commit(PeerCreateInitiation(st), "rekey", FALSE)
    /\ UNCHANGED nwritten
    /\ hist' = Track(out', {})

\* Wireguard::send_keepalive, run by a keepalive timer at its deadline
KeepaliveFire(F) ==
    /\ \E d \in timers.kaPending :
         /\ d <= now
         /\ LET st0 == [PeerState(0, 0) EXCEPT !.timers.kaPending = @ \ {d}]
                r0 == PeerWrite(st0, 0, TRUE)
            IN  \E f \in FailChoices(F, r0), j \in JitChoices(r0) :
                  Commit(Under(j, f, r0,
                               PeerWrite([st0 EXCEPT !.jit = j,
                                                     !.failAt = f], 0, TRUE)),
                         "keepalive", FALSE)
    /\ UNCHANGED nwritten
    /\ hist' = Track(out', {})

PendingDeadlines ==
    timers.kaPending \cup
        (IF timers.rekey = None THEN {} ELSE {timers.rekey.at})

\* Time passes, up to the next deadline of a pending timer.
Tick ==
    /\ \A d \in PendingDeadlines : d > now
    /\ \E step \in TickSteps :
          /\ now' = Min({now + step} \cup PendingDeadlines)
          /\ now' <= limits.time
    /\ out' = <<>>
    /\ ev' = [op |-> "tick", res |-> "ok"]
    /\ UNCHANGED <<limits, wheel, queue, timers, hs, nwritten, quiet, hist,
                   wvars, nvars>>

InitiationInputs ==
    [idx : RemoteIdxChoices, ts : TsChoices]
ResponseInputs ==
    [rcv_idx : 1 .. MaxIdx, idx : RemoteIdxChoices, auth : BOOLEAN]
DataInputs ==
    [idx : 1 .. MaxIdx, ctr : CtrInputs, key : KeyInputs, ka : BOOLEAN]

WindowIdle ==
    /\ win = WindowEmpty
    /\ seen = {}
    /\ fed = {}
    /\ gres = None
    /\ calls = 0

\* fragment::Store::default(): no entry
StoreEmpty ==
    /\ frags = <<>>
    /\ fev = None

\* no header written yet
LinkIdle ==
    /\ emitted = None
    /\ verdict = None

\* udp/mod.rs
EPHEMERAL == 49152
\* u16::MAX
U16Max == 65535

\* udp::Interface::default().  map holds the sockets followed one by one,
\* port |-> callback; block, if any, is a run of ports lo .. hi that are
\* bound to sockets not followed further; neph counts the ephemeral binds.
\* Map::default()
MapEmpty == [p \in {} |-> 0]

\* No Socket handle exists.  live, the handles held, each [port, gen, n]:
\* gen numbers the bind that made the binding, n the handle (0) and its
\* clones; owner, the bind each bound port is of; pending, the deferred
\* removals in the order of the drops; last, what the last removal did.
NoSockets ==
    [live |-> {}, owner |-> MapEmpty, pending |-> <<>>, nbind |-> 0,
     nclone |-> 0, last |-> "none"]

UdpDefault ==
    /\ udp = [nxt |-> EPHEMERAL, map |-> MapEmpty, block |-> None,
              neph |-> 0]
    /\ uev = None
    /\ socks = NoSockets

\* net::Interface::init
\* runtime/rt.rs exec, lines 22-27: EXIT is false, the first stakker.run has
\* returned idle_pending, and the loop is at its head; no datagram read yet.
\* reg: the link is registered (State::is_io); exits, runs, polls count the
\* calls of exit_fn, stakker.run and poll; queued, the writes waiting for
\* POLLOUT.
LoopAtHead(idle, reg) ==
    [pc |-> "head", EXIT |-> FALSE, idle_pending |-> idle, io |-> reg,
     timeout |-> "none", exits |-> 0, runs |-> 0, polls |-> 0,
     last |-> "start", queued |-> 0, wait |-> None, ms |-> 0 - 1]

\* Io::new: the fd is registered with POLLIN and an empty write queue.
\* queue is Entry.queue from front to back, its members the numbers of the
\* writes; wire, the datagrams send() took, in order; nw, the writes made;
\* last, what the last Io::write or State::poll came to.
IoNew ==
    [events |-> {"POLLIN"}, queue |-> <<>>, wire |-> <<>>, nw |-> 0,
     last |-> "new"]

LoopStart ==
    /\ lev = None
    /\ rt = LoopAtHead(FALSE, TRUE)
    /\ io = IoNew

NetIdle == StoreEmpty /\ LinkIdle /\ UdpDefault /\ LoopStart

Init ==
    /\ PeerFresh
    /\ WindowIdle
    /\ NetIdle
    /\ limits = [time |-> MaxTime, idx |-> MaxIdx]

Next ==
    \/ AppWrite(LinkFailures)
    \/ \E msg \in InitiationInputs : RecvInitiation(msg, LinkFailures)
    \/ \E msg \in ResponseInputs : RecvResponse(msg, LinkFailures)
    \/ \E msg \in DataInputs : RecvData(msg, LinkFailures)
    \/ RekeyFire(LinkFailures)
    \/ KeepaliveFire(LinkFailures)
    \/ Tick

Spec == Init /\ [][Next]_vars

(***************************************************************************)
(* SpecLive: the link takes every packet and the remote peer answers: the  *)
(* Response to the Initiation that is outstanding arrives in the end.      *)
(***************************************************************************)

NoFailure == {0}
LiveHorizon == 5000

LiveInit ==
    /\ PeerFresh
    /\ WindowIdle
    /\ NetIdle
    /\ limits = [time |-> LiveHorizon, idx |-> MaxIdx]

\* Interface::handle_response for the Response the remote peer makes from
\* the outstanding Initiation
Answer ==
    /\ wheel.sent # None
    /\ \E i \in RemoteIdxChoices :
          RecvResponse([rcv_idx |-> wheel.sent.idx, idx |-> i,
                        auth |-> TRUE], NoFailure)

NextLive ==
    \/ AppWrite(NoFailure)
    \/ \E msg \in InitiationInputs : RecvInitiation(msg, NoFailure)
    \/ \E msg \in ResponseInputs : RecvResponse(msg, NoFailure)
    \/ \E msg \in DataInputs : RecvData(msg, NoFailure)
    \/ RekeyFire(NoFailure)
    \/ KeepaliveFire(NoFailure)
    \/ Tick

SpecLive == LiveInit /\ [][NextLive]_vars /\ WF_vars(Answer)

(***************************************************************************)
(* SpecAged: the peer with one established session that has been idle      *)
(* since: as initiator after write, Response and a keepalive received, as  *)
(* responder after Initiation and the first Data packet.  The session's    *)
(* age and send counter are drawn from the values the rekey rules turn on. *)
(***************************************************************************)

AgedHorizon == 15000
AgeChoices == {REKEY_AFTER_TIME}
\* The send counter: as the handshake left it, or after sends up to the
\* rekey threshold.
SctrChoices(role) ==
    {U64FromNat(IF role = "Initiator" THEN 1 ELSE 0),
     <<2^16 - 1, LimbBase - 1, LimbBase - 1>>, REKEY_AFTER_MESSAGES}

\* The established and idle peer; the session was created at time 0.
AgedWheel(role, sctr) ==
    [prev |-> None,
     pair |-> [idx |-> IF role = "Initiator" THEN 1 ELSE 2,
               tun |-> [recv |-> [key |-> 1, win |-> WindowNew(0),
                                  time |-> 0],
                        role |-> role, send |-> 1, sctr |-> sctr,
                        sidx |-> IF role = "Initiator" THEN 2 ELSE 1]],
     next |-> IF role = "Initiator" THEN None
              ELSE [idx |-> 2, nx |-> [sidx |-> 1, skey |-> 1, rkey |-> 1,
                                        time |-> 0]],
     sent |-> None]

AgedInit ==
    /\ WindowIdle
    /\ NetIdle
    /\ \E role \in {"Initiator", "Responder"} :
          /\ \E sctr \in SctrChoices(role) : wheel = AgedWheel(role, sctr)
          /\ hs = [timestamp |-> IF role = "Initiator" THEN None
                                 ELSE [ts |-> 1],
                   idx_cur |-> 2]
    /\ now \in AgeChoices
    /\ limits = [time |-> now + AgedHorizon, idx |-> MaxIdx]
    /\ queue = <<>>
    /\ timers = [rekey |-> None, keepalive |-> None, kaPending |-> {},
                 rekey_start |-> None]
    /\ out = <<>>
    /\ ev = None
    /\ nwritten = 0
    /\ quiet = None
    /\ hist = None

SpecAged == AgedInit /\ [][Next]_vars

(***************************************************************************)
(* SpecBrink: an initiator session near the end of its life: its age is    *)
(* 5 s short of REJECT_AFTER_TIME and its send counter one or two short of *)
(* the value it expires at.  Its last send, KEEPALIVE_TIMEOUT ago, was     *)
(* past REKEY_AFTER_MESSAGES and sent the Initiation that is outstanding;  *)
(* the rekey timer stands where that send left it.                         *)
(***************************************************************************)

BrinkHorizon == 10000
BrinkAges == {REJECT_AFTER_TIME - 5000}
\* REJECT_AFTER_MESSAGES - k
BelowReject(k) == <<TopBase - 1, LimbBase - 1, LimbBase - 1 - 2^13 - k>>
BrinkSctrs == {BelowReject(k) : k \in 1 .. 2}

BrinkInit ==
    /\ WindowIdle
    /\ NetIdle
    /\ \E sctr \in BrinkSctrs :
          wheel = [AgedWheel("Initiator", sctr) EXCEPT !.sent = [idx |-> 2]]
    /\ hs = [timestamp |-> None, idx_cur |-> 3]
    /\ now \in BrinkAges
    /\ limits = [time |-> now + BrinkHorizon, idx |-> MaxIdx + 1]
    /\ queue = <<>>
    /\ timers = [rekey |-> [at |-> now - KEEPALIVE_TIMEOUT
                                   + KEEPALIVE_TIMEOUT + REKEY_TIMEOUT],
                 keepalive |-> None, kaPending |-> {},
                 rekey_start |-> [at |-> now - KEEPALIVE_TIMEOUT]]
    /\ out = <<>>
    /\ ev = None
    /\ nwritten = 0
    /\ quiet = None
    /\ hist = None

SpecBrink == BrinkInit /\ [][Next]_vars

(***************************************************************************)
(* SpecStale: a responder session that stays pending.  The peer's          *)
(* Initiation was answered at time 0 and no Data packet has come since;    *)
(* the run starts 5 s short of REJECT_AFTER_TIME.                          *)
(***************************************************************************)

StaleHorizon == 5000
StaleAges == {REJECT_AFTER_TIME - 5000}

StaleInit ==
    /\ WindowIdle
    /\ NetIdle
    /\ wheel = [prev |-> None, pair |-> None,
                next |-> [idx |-> 2, nx |-> [sidx |-> 1, skey |-> 1,
                                              rkey |-> 1, time |-> 0]],
                sent |-> None]
    /\ hs = [timestamp |-> [ts |-> 1], idx_cur |-> 2]
    /\ now \in StaleAges
    /\ limits = [time |-> now + StaleHorizon, idx |-> MaxIdx + 1]
    /\ queue = <<>>
    /\ timers = [rekey |-> None, keepalive |-> None, kaPending |-> {},
                 rekey_start |-> None]
    /\ out = <<>>
    /\ ev = None
    /\ nwritten = 0
    /\ quiet = None
    /\ hist = None

SpecStale == StaleInit /\ [][Next]_vars

(***************************************************************************)
(* SpecWeary: a handshake attempt that is never closed.  At time 0 the     *)
(* fresh peer wrote a payload (Initiation 1), answered the peer's          *)
(* Initiation, and the Data packets of the peer promoted that session and  *)
(* deleted the rekey timer; no Response came, so rekey_start is still 0.   *)
(* A second payload was written at 70 s on the established responder       *)
(* session, which armed the rekey timer; the run starts at 85 s, when that *)
(* timer is due.                                                           *)
(***************************************************************************)

WearyHorizon == 5000
WearyAges == {REKEY_ATTEMPT_TIME - 5000}

WearyInit ==
    /\ WindowIdle
    /\ NetIdle
    /\ wheel = [prev |-> None,
                pair |-> [idx |-> 2,
                          tun |-> [recv |-> [key |-> 2,
                                             win |-> MarkSeen(WindowNew(0), 1),
                                             time |-> 0],
                                   role |-> "Responder", send |-> 2,
                                   sctr |-> U64FromNat(2), sidx |-> 2]],
                next |-> [idx |-> 2, nx |-> [sidx |-> 2, skey |-> 2,
                                              rkey |-> 2, time |-> 0]],
                sent |-> [idx |-> 1]]
    /\ hs = [timestamp |-> [ts |-> 1], idx_cur |-> 3]
    /\ now \in WearyAges
    /\ limits = [time |-> now + WearyHorizon, idx |-> MaxIdx + 2]
    /\ queue = <<>>
    /\ timers = [rekey |-> [at |-> now], keepalive |-> None,
                 kaPending |-> {}, rekey_start |-> [at |-> 0]]
    /\ out = <<>>
    /\ ev = None
    /\ nwritten = 0
    /\ quiet = None
    /\ hist = None

SpecWeary == WearyInit /\ [][Next]_vars

(***************************************************************************)
(* SpecHist: the run from the fresh peer over HistHorizon on a link that   *)
(* takes every packet, with the history of the Data packets sent and       *)
(* accepted kept along.                                                    *)
(***************************************************************************)

HistHorizon == 5000

HistInit ==
    /\ WindowIdle
    /\ NetIdle
    /\ now = 0
    /\ wheel = [prev |-> None, pair |-> None, next |-> None, sent |-> None]
    /\ queue = <<>>
    /\ timers = [rekey |-> None, keepalive |-> None, kaPending |-> {},
                 rekey_start |-> None]
    /\ hs = [timestamp |-> None, idx_cur |-> 1]
    /\ out = <<>>
    /\ ev = None
    /\ nwritten = 0
    /\ quiet = None
    /\ hist = [used |-> {}, taken |-> {}]
    /\ limits = [time |-> HistHorizon, idx |-> MaxIdx]

SpecHist == HistInit /\ [][NextLive]_vars

(***************************************************************************)
(* net/ip/fragment.rs: the reassembly of one key.  A fragment is           *)
(* [more, start, buf] with buf the sequence of its bytes.                  *)
(***************************************************************************)

MaxStart == 3
MaxFragLen == 2
ByteChoices == {1, 2}

BufChoices == UNION {[1 .. n -> ByteChoices] : n \in 0 .. MaxFragLen}
\* ip/v4.rs recv_v4: a packet with start = 0 and more unset is not a fragment
FragmentInputs ==
    {f \in [more : BOOLEAN, start : 0 .. MaxStart, buf : BufChoices] :
        ~(f.start = 0 /\ ~f.more)}

\* Fragment::end
end(f) == f.start + Len(f.buf)

\* binary_search_by_key(&fragment.start, |x| x.start) on the list, which is
\* sorted by start: a match, or the number of fragments that start earlier
SearchFound(frs, start) == \E i \in 1 .. Len(frs) : frs[i].start = start
SearchIdx(frs, start) ==
    Cardinality({i \in 1 .. Len(frs) : frs[i].start < start})

\* Vec::insert(idx, fragment), idx counted from 0
VecInsert(frs, idx, f) ==
    SubSeq(frs, 1, idx) \o <<f>> \o SubSeq(frs, idx + 1, Len(frs))

\* State::try_insert
try_insert(frs, f) ==
    IF SearchFound(frs, f.start) THEN [ok |-> FALSE, frs |-> frs]
    ELSE LET idx == SearchIdx(frs, f.start) IN
         IF idx >= 1 /\ f.start < end(frs[idx])
         THEN [ok |-> FALSE, frs |-> frs]
         ELSE IF idx < Len(frs) /\ f.more
         THEN [ok |-> FALSE, frs |-> frs]
         ELSE IF idx < Len(frs) /\ frs[idx + 1].start < end(f)
         THEN [ok |-> FALSE, frs |-> frs]
         ELSE [ok |-> TRUE, frs |-> VecInsert(frs, idx, f)]

RECURSIVE TotalLen(_)
TotalLen(frs) ==
    IF frs = <<>> THEN 0 ELSE Len(Head(frs).buf) + TotalLen(Tail(frs))

\* State::assemble, first loop: every fragment starts where the ones before
\* it end
Continuous(frs) ==
    \A i \in 1 .. Len(frs) : frs[i].start = TotalLen(SubSeq(frs, 1, i - 1))

\* State::assemble, second loop: the fragments copied into a zeroed buffer of
\* n bytes, in order
CopyAll(frs, n) ==
    [k \in 1 .. n |->
        LET hits == {i \in 1 .. Len(frs) :
                        frs[i].start < k /\ k <= end(frs[i])}
        IN  IF hits = {} THEN 0
            ELSE frs[Max(hits)].buf[k - frs[Max(hits)].start]]

\* State::assemble
assemble(frs) ==
    IF frs = <<>> THEN None
    ELSE IF frs[Len(frs)].more THEN None
    ELSE IF ~Continuous(frs) THEN None
    ELSE [buf |-> CopyAll(frs, TotalLen(frs))]

\* handle_fragment that leaves the entry in the store after a delivery
handle_fragmentKeepsEntry(frs, f) ==
    IF frs = <<>>
    THEN [frs |-> <<f>>, fev |-> [res |-> "stored", buf |-> None]]
    ELSE LET r == try_insert(frs, f) IN
         IF ~r.ok
         THEN [frs |-> frs, fev |-> [res |-> "rejected", buf |-> None]]
         ELSE LET a == assemble(r.frs) IN
              IF a # None
              THEN [frs |-> r.frs, fev |-> [res |-> "delivered", buf |-> a]]
              ELSE [frs |-> r.frs, fev |-> [res |-> "stored", buf |-> None]]

\* Interface::handle_fragment on the fragments frs stored for the key: the
\* fragments kept and the result; a completed packet goes to
\* Interface::handle
handle_fragment(frs, f) ==
    IF frs = <<>>
    THEN [frs |-> <<f>>, fev |-> [res |-> "stored", buf |-> None]]
    ELSE LET r == try_insert(frs, f) IN
         IF ~r.ok
         THEN [frs |-> frs, fev |-> [res |-> "rejected", buf |-> None]]
         ELSE LET a == assemble(r.frs) IN
              IF a # None
              THEN [frs |-> <<>>, fev |-> [res |-> "delivered", buf |-> a]]
              ELSE [frs |-> r.frs, fev |-> [res |-> "stored", buf |-> None]]

HandleFragment(f) ==
    /\ frags' = handle_fragment(frags, f).frs
    /\ fev' = handle_fragment(frags, f).fev
    /\ UNCHANGED <<pvars, wvars, cvars, uvars, xvars>>

FInit == Init

FNext == \E f \in FragmentInputs : HandleFragment(f)

SpecReassembly == FInit /\ [][FNext]_vars

(***************************************************************************)
(* net/ip/checksum.rs and net/ip/v4.rs.  Bytes are 0 .. 255; the u64       *)
(* accumulator of Checksum is [l, h], the sums of the low and of the high  *)
(* 16-bit halves of the 32-bit words pushed (its value is l + 2^16 * h);   *)
(* words are read as on a little-endian target.                            *)
(***************************************************************************)

\* the buffer with the zero bytes push appends to a last partial word
Pad4(b) == b \o [i \in 1 .. ((4 - (Len(b) % 4)) % 4) |-> 0]

RECURSIVE SumHalves(_, _, _)
\* the sum of the 16-bit halves at offset o of the first n words of b
SumHalves(b, n, o) ==
    IF n = 0 THEN 0
    ELSE b[4 * n - 3 + o] + 256 * b[4 * n - 2 + o] + SumHalves(b, n - 1, o)

\* Checksum::push
push(acc, b) ==
    LET p == Pad4(b) IN
    [l |-> acc.l + SumHalves(p, Len(p) \div 4, 0),
     h |-> acc.h + SumHalves(p, Len(p) \div 4, 2)]

\* Checksum::of
ChecksumOf(b) == push([l |-> 0, h |-> 0], b)

\* Checksum::end.  (self.acc >> 32) as u32 + self.acc as u32 is a u32
\* addition: when it overflows, a build with overflow checks panics and one
\* without them wraps.
ChecksumEnd(acc) ==
    LET l0 == acc.l % 65536
        m == acc.h + (acc.l \div 65536)
        h1 == m % 65536
        hi32 == m \div 65536
        s0 == l0 + hi32
        l1 == s0 % 65536
        h2 == h1 + (s0 \div 65536)
        x == l1 + (h2 % 65536)
        y == (x % 65536) + (x \div 65536)
        v == 65535 - y
        wrapped == [panic |-> FALSE, bytes |-> <<v % 256, v \div 256>>]
    IN  IF h2 >= 65536 THEN {[panic |-> TRUE, bytes |-> <<>>], wrapped}
        ELSE {wrapped}

\* The 20 bytes of v4::Header as write_v4 fills them, with csm as given
HeaderBytes(in, csm) ==
    LET len == (20 + in.paylen) % 65536 IN
    <<69, in.tos, len \div 256, len % 256, 0, 0, 64, 0, 64, in.proto>>
        \o csm \o in.src \o in.dst

\* Interface::write_v4: the checksum is taken over the header in the zeroed
\* buffer of Io::write and stored in csm
write_v4(in) ==
    {IF o.panic THEN o
     ELSE [panic |-> FALSE, bytes |-> HeaderBytes(in, o.bytes)] :
        o \in ChecksumEnd(ChecksumOf(HeaderBytes(in, <<0, 0>>)))}

\* bit k (from 1) of the buffer inverted; k = 0: the buffer as it is
FlipBit(b, k) ==
    IF k = 0 THEN b
    ELSE LET j == ((k - 1) \div 8) + 1
             w == 2 ^ ((k - 1) % 8)
         IN  [b EXCEPT ![j] = IF (@ \div w) % 2 = 1 THEN @ - w ELSE @ + w]

V4Sources == {<<10, 0, 0, 1>>, <<10, 0, 0, 255>>}
V4Destinations == {<<10, 0, 0, 2>>, <<112, 238, 191, 228>>}
\* Protocol::Tcp, Protocol::Udp
ProtocolChoices == {6, 17}
TosChoices == {0, 3}
PayloadLens == {8, 1480}
V4Inputs ==
    [src : V4Sources, dst : V4Destinations, proto : ProtocolChoices,
     tos : TosChoices, paylen : PayloadLens]

\* Interface::write_v4
WriteV4(in) ==
    /\ \E o \in write_v4(in) : emitted' = [in |-> in, out |-> o]
    /\ verdict' = None
    /\ UNCHANGED <<pvars, wvars, fvars, uvars, xvars>>

\* recv_v4, lines 30-40: the checksum over the 20 header bytes, here of the
\* header emitted last with bit k inverted
RecvChecksum(k) ==
    /\ emitted # None
    /\ ~emitted.out.panic
    /\ \E o \in ChecksumEnd(ChecksumOf(FlipBit(emitted.out.bytes, k))) :
          verdict' = [flip |-> k, out |-> o]
    /\ UNCHANGED <<pvars, wvars, fvars, uvars, xvars, emitted>>

CInit == Init

CNext ==
    \/ \E in \in V4Inputs : WriteV4(in)
    \/ \E k \in 0 .. 160 : RecvChecksum(k)

SpecChecksum == CInit /\ [][CNext]_vars

(***************************************************************************)
(* net/udp/mod.rs                                                          *)
(***************************************************************************)

MaxEph == 2
PortChoices == {53, EPHEMERAL, EPHEMERAL + 1, U16Max}
CallbackChoices == {1, 2}
\* Interface.v4 and the address of the remote host
OwnV4 == <<10, 0, 0, 1>>
PeerV4 == <<10, 0, 0, 2>>
\* the port of the socket on the remote host
RemotePort == 4000

Be16(n) == <<n \div 256, n % 256>>

\* map.find(&port) / map.find_entry(&port) is Filled
Bound(u, port) ==
    \/ port \in DOMAIN u.map
    \/ u.block # None /\ u.block.lo <= port /\ port <= u.block.hi

\* the callback of the entry found; 0 names the sockets of block
CallbackAt(u, port) == IF port \in DOMAIN u.map THEN u.map[port] ELSE 0

\* entry.insert(Entry { port, callback })
MapInsert(u, port, cb) == [u EXCEPT !.map = (port :> cb) @@ @]

\* bind that replaces the entry of a bound port
bindOver(u, port, cb) ==
    [ok |-> TRUE, u |-> [u EXCEPT !.map = (port :> cb) @@ @]]

\* Interface::bind
bind(u, port, cb) ==
    IF Bound(u, port) THEN [ok |-> FALSE, u |-> u]
    ELSE [ok |-> TRUE, u |-> MapInsert(u, port, cb)]

\* The ports the loop of bind_eph and connect can stop at: a free port it
\* reaches is the first it tries or follows a bound one.
StopPorts(u) ==
    {q \in {u.nxt + 1, EPHEMERAL} \cup {p + 1 : p \in DOMAIN u.map}
            \cup (IF u.block = None THEN {} ELSE {u.block.hi + 1}) :
        EPHEMERAL <= q /\ q <= U16Max /\ ~Bound(u, q)}

\* The loop of bind_eph and connect: nxt goes up by one, from u16::MAX to
\* EPHEMERAL, until the port it names is free.  ahead are the free ports it
\* meets before it wraps, behind the ones it meets after; with neither the
\* loop does not end.
EphWalk(u, cb) ==
    LET ahead == {q \in StopPorts(u) : q > u.nxt}
        behind == {q \in StopPorts(u) : q <= u.nxt}
    IN  IF ahead # {}
        THEN [res |-> "ok", port |-> Min(ahead), wraps |-> 0,
              u |-> [MapInsert(u, Min(ahead), cb) EXCEPT !.nxt = Min(ahead)]]
        ELSE IF behind # {}
        THEN [res |-> "ok", port |-> Min(behind), wraps |-> 1,
              u |-> [MapInsert(u, Min(behind), cb)
                        EXCEPT !.nxt = Min(behind)]]
        ELSE [res |-> "spins", port |-> 0, wraps |-> 2, u |-> u]

\* Interface::pseudo_checksum for IPv4, on the host whose address is v4
pseudo_checksum(v4, proto, addr) ==
    push(push(ChecksumOf(addr), v4), <<0, 0, 0, proto>>)

\* udp::Header and the payload behind it
Segment(src, dst, len, csum, payload) ==
    Be16(src) \o Be16(dst) \o Be16(len) \o csum \o payload

\* Socket::write: the segments the host v4 can emit from port src to
\* addr:port
SocketWrite(v4, src, addr, port, payload) ==
    LET len == 8 + Len(payload)
        buf == Segment(src, port, len, <<0, 0>>, payload)
    IN  {Segment(src, port, len, o.bytes, payload) :
            o \in {x \in ChecksumEnd(push(push(pseudo_checksum(v4, 17, addr),
                                                Be16(len)), buf)) :
                      ~x.panic}}

\* recv without the comparison of the length field
recvAnyLen(u, addr, buf) ==
    IF Len(buf) < 8 THEN {[res |-> "short", cb |-> 0, port |-> 0]}
    ELSE LET dst == 256 * buf[3] + buf[4]
         IN  {IF ~Bound(u, dst)
              THEN [res |-> "no_socket", cb |-> 0, port |-> 0]
              ELSE [res |-> "delivered", cb |-> CallbackAt(u, dst),
                    port |-> 256 * buf[1] + buf[2]]}

\* Interface::recv for a segment from the IPv4 address addr, and the call of
\* the closure it returns
recv(u, addr, buf) ==
    IF Len(buf) < 8 THEN {[res |-> "short", cb |-> 0, port |-> 0]}
    ELSE LET len == Len(buf)
             sums == IF SubSeq(buf, 7, 8) # <<0, 0>>
                     THEN ChecksumEnd(push(push(pseudo_checksum(OwnV4, 17, addr),
                                                <<0, 0>> \o Be16(len)), buf))
                     ELSE {[panic |-> FALSE, bytes |-> <<0, 0>>]}
             dst == 256 * buf[3] + buf[4]
         IN  {IF v.panic THEN [res |-> "panic", cb |-> 0, port |-> 0]
              ELSE IF v.bytes # <<0, 0>>
              THEN [res |-> "bad_checksum", cb |-> 0, port |-> 0]
              ELSE IF ~Bound(u, dst)
              THEN [res |-> "no_socket", cb |-> 0, port |-> 0]
              ELSE IF 256 * buf[5] + buf[6] # len
              THEN [res |-> "bad_length", cb |-> 0, port |-> 0]
              ELSE [res |-> "delivered", cb |-> CallbackAt(u, dst),
                    port |-> 256 * buf[1] + buf[2]] : v \in sums}

\* The call of bind_eph or connect has not come back: the actor runs nothing
\* else.
Spinning == uev # None /\ uev.res = "spins"

\* Socket::bind
Bind(port, cb) ==
    /\ ~Spinning
    /\ LET r == bind(udp, port, cb) IN
          /\ udp' = r.u
          /\ uev' = [op |-> "bind", res |-> IF r.ok THEN "ok" ELSE "in_use",
                     port |-> port, cb |-> cb, wraps |-> 0, seg |-> <<>>]
    /\ UNCHANGED <<pvars, wvars, fvars, cvars, xvars, socks>>

\* Socket::bind_eph (op = "bind_eph") and Connected::bind (op = "connect")
BindEph(op, cb) ==
    /\ ~Spinning
    /\ udp.neph < MaxEph
    /\ LET r == EphWalk(udp, cb) IN
          /\ udp' = [r.u EXCEPT !.neph = @ + 1]
          /\ uev' = [op |-> op, res |-> r.res, port |-> r.port, cb |-> cb,
                     wraps |-> r.wraps, seg |-> <<>>]
    /\ UNCHANGED <<pvars, wvars, fvars, cvars, xvars, socks>>

\* Drop for Socket: the deferred removal of the socket's port
DropSocket(port) ==
    /\ ~Spinning
    /\ port \in DOMAIN udp.map
    /\ udp' = [udp EXCEPT !.map = [q \in DOMAIN @ \ {port} |-> @[q]]]
    /\ uev' = [op |-> "drop", res |-> "ok", port |-> port, cb |-> 0,
               wraps |-> 0, seg |-> <<>>]
    /\ UNCHANGED <<pvars, wvars, fvars, cvars, xvars, socks>>

\* What the link can bring: the segments a remote Socket::write emits for a
\* payload, and those with the checksum cleared, off by one, the length field
\* off by one, or cut short
SegmentInputs ==
    UNION {UNION {{seg,
                   [seg EXCEPT ![7] = 0, ![8] = 0],
                   [seg EXCEPT ![8] = (@ + 1) % 256],
                   [seg EXCEPT ![6] = (@ + 1) % 256],
                   [seg EXCEPT ![6] = (@ + 1) % 256, ![7] = 0, ![8] = 0],
                   SubSeq(seg, 1, 7)} :
                      seg \in SocketWrite(PeerV4, RemotePort, OwnV4, dport, pl)} :
              dport \in PortChoices, pl \in {<<7>>}}

\* Interface::recv, for a UDP segment of a packet from PeerV4
UdpRecv(seg) ==
    /\ ~Spinning
    /\ \E r \in recv(udp, PeerV4, seg) :
          uev' = [op |-> "recv", res |-> r.res, port |-> r.port,
                  cb |-> r.cb, wraps |-> 0, seg |-> seg]
    /\ UNCHANGED <<pvars, wvars, fvars, cvars, xvars, udp, socks>>

\* The sockets of two fewer ephemeral binds than there are ephemeral ports,
\* made one after the other from the default state and all alive:
\* ports EPHEMERAL + 1 .. u16::MAX - 1 are bound and nxt is the last of them.
UdpCrowded ==
    /\ udp = [nxt |-> U16Max - 1, map |-> MapEmpty,
              block |-> [lo |-> EPHEMERAL + 1, hi |-> U16Max - 1],
              neph |-> 0]
    /\ uev = None
    /\ socks = NoSockets

UInit ==
    /\ PeerFresh
    /\ WindowIdle
    /\ limits = [time |-> MaxTime, idx |-> MaxIdx]
    /\ StoreEmpty
    /\ LinkIdle
    /\ LoopStart
    /\ (UdpDefault \/ UdpCrowded)

UNext ==
    \/ \E port \in PortChoices, cb \in CallbackChoices : Bind(port, cb)
    \/ \E op \in {"bind_eph", "connect"}, cb \in CallbackChoices :
          BindEph(op, cb)
    \/ \E port \in PortChoices : DropSocket(port)
    \/ \E seg \in SegmentInputs : UdpRecv(seg)

SpecUdp == UInit /\ [][UNext]_vars

(***************************************************************************)
(* The handles of udp::Socket: bind makes one, Clone (derived) makes       *)
(* another for the same port, and each drop defers a removal of the port   *)
(* that asserts that a binding was there.                                  *)
(***************************************************************************)

MaxBinds == 2
MaxClones == 1
SocketPorts == {53, 5353}

\* a removal has failed its assertion
SockPanicked == socks.last = "assert"

\* Socket::bind that returned a handle, or Err for a port in use
SockBind(port, cb) ==
    /\ ~SockPanicked
    /\ socks.nbind < MaxBinds
    /\ LET r == bind(udp, port, cb)
           gen == socks.nbind + 1
       IN  /\ udp' = r.u
           /\ uev' = [op |-> "bind", res |-> IF r.ok THEN "ok" ELSE "in_use",
                      port |-> port, cb |-> cb, wraps |-> 0, seg |-> <<>>]
           /\ socks' = IF r.ok
                       THEN [socks EXCEPT
                               !.live = @ \cup {[port |-> port, gen |-> gen,
                                                 n |-> 0]},
                               !.owner = [q \in DOMAIN @ \cup {port} |->
                                            IF q = port THEN gen ELSE @[q]],
                               !.nbind = gen]
                       ELSE [socks EXCEPT !.nbind = gen]
    /\ UNCHANGED <<pvars, wvars, fvars, cvars, xvars>>

\* Socket::clone (#[derive(Clone)]): a second handle with the same port
SockClone(h) ==
    /\ ~SockPanicked
    /\ h \in socks.live
    /\ socks.nclone < MaxClones
    /\ socks' = [socks EXCEPT
                   !.live = @ \cup {[h EXCEPT !.n = socks.nclone + 1]},
                   !.nclone = @ + 1]
    /\ UNCHANGED <<pvars, wvars, fvars, cvars, xvars, udp, uev>>

\* Drop for Socket: the handle is gone and the removal of its port deferred
SockDrop(h) ==
    /\ ~SockPanicked
    /\ h \in socks.live
    /\ socks' = [socks EXCEPT !.live = @ \ {h},
                              !.pending = Append(@, h)]
    /\ UNCHANGED <<pvars, wvars, fvars, cvars, xvars, udp, uev>>

\* the deferred closure runs:
\* assert!(this.udp.map.find_entry(&port).remove().is_some())
SockRemove ==
    /\ ~SockPanicked
    /\ socks.pending # <<>>
    /\ LET h == Head(socks.pending) IN
       IF h.port \in DOMAIN udp.map
       THEN /\ udp' = [udp EXCEPT
                         !.map = [q \in DOMAIN @ \ {h.port} |-> @[q]]]
            /\ socks' = [socks EXCEPT
                           !.pending = Tail(@),
                           !.owner = [q \in DOMAIN @ \ {h.port} |-> @[q]],
                           !.last = IF socks.owner[h.port] = h.gen
                                    THEN "removed" ELSE "stolen"]
       ELSE /\ udp' = udp
            /\ socks' = [socks EXCEPT !.pending = Tail(@),
                                      !.last = "assert"]
    /\ uev' = [op |-> "drop", res |-> "ok", port |-> Head(socks.pending).port,
               cb |-> 0, wraps |-> 0, seg |-> <<>>]
    /\ UNCHANGED <<pvars, wvars, fvars, cvars, xvars>>

HandleChoices ==
    [port : SocketPorts, gen : 1 .. MaxBinds, n : 0 .. MaxClones]

SockInit == Init

SockNext ==
    \/ \E port \in SocketPorts, cb \in CallbackChoices : SockBind(port, cb)
    \/ \E h \in HandleChoices : SockClone(h)
    \/ \E h \in HandleChoices : SockDrop(h)
    \/ SockRemove

SpecSockets == SockInit /\ [][SockNext]_vars

(***************************************************************************)
(* The way of a datagram from the link: runtime recv, Wireguard::read,     *)
(* net Interface::recv, recv_v4, Interface::handle.  The plaintext of a    *)
(* Data message is a sequence of bytes; the state of the peer is followed  *)
(* in Spec, here the tunnel is the answer of its handler (ok).             *)
(***************************************************************************)

\* size_of::<packet::Tag>()
TagSize == 4
\* size_of::<Initiation>() + MAC_LEN
InitiationSize == 148
\* size_of::<Response>() + MAC_LEN
ResponseSize == 92
\* size_of::<Cookie>()
CookieSize == 64
\* size_of::<Data>() + size_of::<Tag>(), Tag the authentication tag
DataSize == 32
\* size_of::<v4::Header>()
HeaderSize == 20

\* what became of a datagram: uev the call into udp::Interface it led to,
\* frag the result of handle_fragment
Out(res, layer) == [res |-> res, layer |-> layer, uev |-> None, frag |-> None]

\* Interface::handle; Protocol is Udp or Unknown here
handle(u, proto, addr, buf) ==
    IF proto = 17
    THEN {[res |-> IF r.res \in {"delivered", "panic"} THEN r.res
                   ELSE "dropped",
           layer |-> "udp",
           uev |-> [op |-> "recv", res |-> r.res, port |-> r.port,
                    cb |-> r.cb, wraps |-> 0, seg |-> buf],
           frag |-> None] : r \in recv(u, addr, buf)}
    ELSE {Out("dropped", "ip")}

\* Interface::recv_v4 from line 42 on: b is the packet, header_len bytes of
\* it are split off.  header.len - header_len is a usize subtraction: below
\* zero it panics with overflow checks and wraps without, to a length the
\* buffer does not have.
Payload(u, frs, b, header_len) ==
    LET lenf == 256 * b[3] + b[4]
        more == (b[7] \div 32) % 2 = 1
        start == 256 * (b[7] % 32) + b[8]
        src == SubSeq(b, 13, 16)
        buf == SubSeq(b, header_len + 1, lenf)
    IN  IF lenf < header_len
        THEN {Out("panic", "ip"), Out("dropped", "ip")}
        ELSE IF Len(b) - header_len < lenf - header_len
        THEN {Out("dropped", "ip")}
        ELSE IF start = 0 /\ ~more
        THEN handle(u, b[10], src, buf)
        ELSE LET h == handle_fragment(frs, [more |-> more, start |-> start,
                                            buf |-> buf])
             IN  {[res |-> IF h.fev.res = "rejected" THEN "dropped"
                           ELSE h.fev.res,
                   layer |-> "fragment", uev |-> None, frag |-> h]}

\* Interface::recv_v4.  Slice::split and split_n assert that the bytes are
\* there; header_len - size_of::<Header>() below zero panics with overflow
\* checks and without them asks split_n for more than there is.
recv_v4(u, frs, b) ==
    IF Len(b) < HeaderSize THEN {Out("panic", "ip")}
    ELSE LET header_len == 4 * (b[1] % 16)
             sums == IF SubSeq(b, 11, 12) # <<0, 0>>
                     THEN ChecksumEnd(push(ChecksumOf(SubSeq(b, 1, 20)),
                                           SubSeq(b, 21, header_len)))
                     ELSE {[panic |-> FALSE, bytes |-> <<0, 0>>]}
         IN  IF SubSeq(b, 17, 20) # OwnV4 THEN {Out("dropped", "ip")}
             ELSE IF header_len < HeaderSize THEN {Out("panic", "ip")}
             ELSE IF header_len > Len(b) THEN {Out("panic", "ip")}
             ELSE UNION {IF o.panic THEN {Out("panic", "ip")}
                         ELSE IF o.bytes # <<0, 0>>
                         THEN {Out("dropped", "ip")}
                         ELSE Payload(u, frs, b, header_len) : o \in sums}

\* crate::Interface::recv: Version is V4 or Unknown here
IpRecv(u, frs, b) ==
    IF b[1] \div 16 = 4 THEN recv_v4(u, frs, b)
    ELSE {Out("dropped", "ip")}

\* Wireguard::read with initiation, response, cookie and data, for the
\* datagram d = [n, tag, ok, plain]: n bytes, the first four the tag; ok,
\* the handler of the message returned Ok; plain, the bytes a Data message
\* decrypts to.  bytes::cast asserts that the four bytes are there.
read(u, frs, d) ==
    IF d.n < TagSize THEN {Out("panic", "tunnel")}
    ELSE IF d.tag = 1
    THEN IF d.n # InitiationSize \/ ~d.ok THEN {Out("dropped", "tunnel")}
         ELSE {Out("handled", "tunnel")}
    ELSE IF d.tag = 2
    THEN IF d.n # ResponseSize \/ ~d.ok THEN {Out("dropped", "tunnel")}
         ELSE {Out("handled", "tunnel")}
    ELSE IF d.tag = 3
    THEN IF d.n # CookieSize \/ ~d.ok THEN {Out("dropped", "tunnel")}
         ELSE {Out("handled", "tunnel")}
    ELSE IF d.tag = 4
    THEN IF d.n < DataSize \/ ~d.ok THEN {Out("dropped", "tunnel")}
         ELSE IF d.plain = <<>> THEN {Out("keepalive", "tunnel")}
         ELSE IpRecv(u, frs, d.plain)
    ELSE {Out("dropped", "tunnel")}

Zeros(n) == [i \in 1 .. n |-> 0]

\* An IPv4 packet from PeerV4 with the fields of q and the checksum csm; the
\* length field is the length of the packet plus q.dlen
V4Bytes(q, csm) ==
    LET opts == IF q.ihl > 5 THEN 4 * (q.ihl - 5) ELSE 0
        lenf == HeaderSize + opts + Len(q.body) + q.dlen
    IN  <<16 * q.ver + q.ihl, 0, lenf \div 256, lenf % 256, 0, 0,
          (IF q.more THEN 32 ELSE 0) + (q.start \div 256), q.start % 256,
          64, q.proto>> \o csm \o PeerV4 \o q.dst \o Zeros(opts) \o q.body

\* q.csm: "zero", "good" (the checksum of the header) or "bad"
V4Packet(q) ==
    LET zero == V4Bytes(q, <<0, 0>>)
        opts == IF q.ihl > 5 THEN 4 * (q.ihl - 5) ELSE 0
        good == (CHOOSE o \in ChecksumEnd(ChecksumOf(
                        SubSeq(zero, 1, HeaderSize + opts))) : ~o.panic).bytes
    IN  IF q.csm = "zero" THEN zero
        ELSE IF q.csm = "good" THEN V4Bytes(q, good)
        ELSE V4Bytes(q, <<(good[1] + 1) % 256, good[2]>>)

\* the payloads of the packets: a segment for port 53 and seven bytes
BodyChoices ==
    SocketWrite(PeerV4, RemotePort, OwnV4, 53, <<7>>) \cup {<<1, 2, 3, 4, 5, 6, 7>>}

\* packets a host may send in good faith
FairPackets ==
    {V4Packet([ver |-> 4, ihl |-> ihl,  dlen |-> 0, dst |-> OwnV4,
               csm |-> csm, more |-> fr[1], start |-> fr[2], proto |-> pr,
               body |-> body]) :
        ihl \in {5, 6}, csm \in {"zero", "good"},
        fr \in {<<FALSE, 0>>, <<TRUE, 0>>, <<FALSE, 9>>},
        pr \in {17, 99}, body \in BodyChoices}

\* and packets with one field off: the version, the header length, the
\* length field, the destination, the checksum; or cut short
OddPackets ==
    LET base == [ver |-> 4, ihl |-> 5, dlen |-> 0, dst |-> OwnV4,
                 csm |-> "good", more |-> FALSE, start |-> 0, proto |-> 17,
                 body |-> <<1, 2, 3, 4, 5, 6, 7>>]
        whole == {V4Packet(q) :
                    q \in {[base EXCEPT !.ver = 15],
                           [base EXCEPT !.ihl = 4],
                           [base EXCEPT !.ihl = 0],
                           [base EXCEPT !.dlen = 4],
                           [base EXCEPT !.dlen = 0 - 8],
                           [base EXCEPT !.dlen = 0 - 27],
                           [base EXCEPT !.dst = PeerV4],
                           [base EXCEPT !.csm = "bad"]}}
        long == V4Packet([base EXCEPT !.ihl = 6])
    IN  whole \cup {SubSeq(V4Packet(base), 1, k) : k \in {1, 19, 20}}
              \cup {SubSeq(long, 1, k) : k \in {20, 23}}

Plaintexts == {<<>>} \cup FairPackets \cup OddPackets

\* What the link can bring.  A datagram of fewer than four bytes has no
\* tag; one that is no Data message decrypts to nothing.
LinkInputs ==
    {[n |-> n, tag |-> 0, ok |-> FALSE, plain |-> <<>>] : n \in {0, 3}}
    \cup {[n |-> n, tag |-> tag, ok |-> FALSE, plain |-> <<>>] :
            n \in {4, 31, 64, 92, 148}, tag \in 0 .. 5}
    \cup {[n |-> DataSize + Len(b), tag |-> 4, ok |-> TRUE, plain |-> b] :
            b \in Plaintexts}

\* a datagram made the process panic
Crashed == lev # None /\ lev.res = "panic"

\* Entry::flush_read forwards the datagram to Wireguard::read
LinkRecv(d) ==
    /\ ~Spinning
    /\ ~Crashed
    /\ \E o \in read(udp, frags, d) :
          /\ lev' = [d |-> d, res |-> o.res, layer |-> o.layer]
          /\ uev' = IF o.uev = None THEN uev ELSE o.uev
          /\ frags' = IF o.frag = None THEN frags ELSE o.frag.frs
          /\ fev' = IF o.frag = None THEN fev ELSE o.frag.fev
    /\ UNCHANGED <<pvars, wvars, cvars, udp, socks, rt, io>>

\* a socket is bound to port 53
LinkBind(cb) ==
    /\ ~Crashed
    /\ Bind(53, cb)

LInit == Init

LNext ==
    \/ \E d \in LinkInputs : LinkRecv(d)
    \/ \E cb \in CallbackChoices : LinkBind(cb)

SpecLink == LInit /\ [][LNext]_vars

(***************************************************************************)
(* runtime/rt.rs exec and runtime/lib.rs State::poll.  No code of the      *)
(* repository shuts the Stakker down: not_shutdown() holds throughout.     *)
(***************************************************************************)

MaxPolls == 3
MaxQueued == 2

\* i32::MAX, the largest timeout poll takes
I32Max == 2147483647

\* A Duration is [secs, nanos] with nanos below 10^9.  Duration::as_millis
\* is secs * 1000 + nanos / 10^6; try_into::<i32>() takes it when it is at
\* most i32::MAX.
FitsI32(d) ==
    \/ d.secs < I32Max \div 1000
    \/ d.secs = I32Max \div 1000 /\ d.nanos \div 1000000 <= I32Max % 1000

\* as_timeout: the milliseconds of t, and -1 (poll without a timeout) for
\* None and for a Duration whose milliseconds do not fit an i32
as_timeout(t) ==
    IF t = None THEN 0 - 1
    ELSE IF FitsI32(t) THEN t.secs * 1000 + t.nanos \div 1000000
    ELSE 0 - 1

\* exec that goes on to poll after the exit function
headPollsOn(r, wait) ==
    IF r.EXIT
    THEN [r EXCEPT !.pc = "poll", !.exits = @ + 1, !.runs = @ + 1,
                   !.last = "exit"]
    ELSE [r EXCEPT !.pc = "poll"]

\* exec, lines 29-53: from the head of the loop to the call of poll; wait
\* is stakker.next_wait(t), the time to the next timer or None.  ms is the
\* timeout State::poll hands to poll (lib.rs, line 127).
head(r, wait) ==
    LET timer == wait # None
        timeout == IF r.idle_pending THEN [secs |-> 0, nanos |-> 0] ELSE wait
    IN  IF r.EXIT
        THEN [r EXCEPT !.pc = "done", !.exits = @ + 1, !.runs = @ + 1,
                       !.last = "exit"]
        ELSE IF ~r.idle_pending /\ ~timer /\ ~r.io
        THEN [r EXCEPT !.pc = "done", !.last = "no_work"]
        ELSE [r EXCEPT !.pc = "poll",
                       !.timeout = IF r.idle_pending THEN "zero"
                                   ELSE IF timer THEN "timer" ELSE "none",
                       !.wait = wait,
                       !.ms = as_timeout(timeout)]

\* exec, lines 57-66, with State::poll: o is what poll made of the fds
\* ("failed": poll, or recv or send in flush_read and flush_write, returned
\* an error other than WouldBlock; "panic": POLLERR, POLLHUP or POLLNVAL),
\* k the queued writes flush_write sent, idle what stakker.run returns, w
\* what became of a write of a handler run by it: Io::write sent it, queued
\* it, or returned the Err of send, which Wireguard::write logs
poll(r, o, k, idle, w) ==
    IF o = "failed"
    THEN [r EXCEPT !.EXIT = TRUE, !.pc = "head", !.polls = @ + 1,
                   !.last = "poll_failed"]
    ELSE IF o = "panic"
    THEN [r EXCEPT !.pc = "panicked", !.polls = @ + 1, !.last = "panic"]
    ELSE [r EXCEPT !.pc = "head", !.polls = @ + 1, !.runs = @ + 1,
                   !.idle_pending = idle,
                   !.queued = (@ - k) + (IF w = "queued" THEN 1 ELSE 0),
                   !.last = IF w = "failed" THEN "write_failed" ELSE o]

\* ctrlc handler
Sigint ==
    /\ rt.pc \in {"head", "poll"}
    /\ ~rt.EXIT
    /\ rt' = [rt EXCEPT !.EXIT = TRUE]
    /\ UNCHANGED <<pvars, wvars, fvars, cvars, uvars, lev, io>>

\* what next_wait returns: no timer, a timer that is due, one due within
\* the millisecond, the timers of the tunnel, and timers about 2^31 ms away
WaitChoices ==
    {None} \cup {[secs |-> d[1], nanos |-> d[2]] :
                    d \in {<<0, 0>>, <<0, 400000>>, <<10, 0>>,
                           <<180, 500000000>>, <<2147483, 647999999>>,
                           <<2147483, 648000000>>, <<2592000, 0>>}}

LoopHead ==
    /\ rt.pc = "head"
    /\ \E wait \in WaitChoices : rt' = head(rt, wait)
    /\ UNCHANGED <<pvars, wvars, fvars, cvars, uvars, lev, io>>

Poll(o, k, idle, w) ==
    /\ rt.pc = "poll"
    /\ rt.polls < MaxPolls
    /\ o = "timeout" => rt.ms >= 0
    /\ o \in {"io", "panic"} => rt.io
    /\ k > 0 => o = "io"
    /\ k <= rt.queued
    /\ w # "none" => rt.io /\ o \in {"timeout", "io"}
    /\ w = "queued" => rt.queued - k < MaxQueued
    /\ rt' = poll(rt, o, k, idle, w)
    /\ UNCHANGED <<pvars, wvars, fvars, cvars, uvars, lev, io>>

PollOutcomes == {"timeout", "io", "failed", "panic"}
WriteOutcomes == {"none", "sent", "queued", "failed"}

RInit ==
    /\ PeerFresh
    /\ WindowIdle
    /\ limits = [time |-> MaxTime, idx |-> MaxIdx]
    /\ StoreEmpty
    /\ LinkIdle
    /\ UdpDefault
    /\ lev = None
    /\ \E idle \in BOOLEAN, reg \in BOOLEAN : rt = LoopAtHead(idle, reg)
    /\ io = IoNew

RNext ==
    \/ Sigint
    \/ LoopHead
    \/ \E o \in PollOutcomes, k \in 0 .. MaxQueued, idle \in BOOLEAN,
          w \in WriteOutcomes : Poll(o, k, idle, w)

SpecLoop == RInit /\ [][RNext]_vars

\* the loop does not stop at its head
SpecLoopLive == SpecLoop /\ WF_vars(LoopHead)

(***************************************************************************)
(* runtime/lib.rs Io::write, State::poll and Entry::flush_write for the    *)
(* fd of the link.  Handlers run between the polls (stakker.run); a        *)
(* datagram flush_read receives is forwarded through a Fwd, so no write    *)
(* is made while poll runs.                                                *)
(***************************************************************************)

MaxWrites == 4

\* Io::write whose queued datagram does not ask for POLLOUT
io_writeNoInterest(s, r) ==
    LET n == s.nw + 1 IN
    IF r = "failed" THEN [s EXCEPT !.nw = n, !.last = "write_failed"]
    ELSE IF r = "sent"
    THEN [s EXCEPT !.nw = n, !.wire = Append(@, n), !.last = "sent"]
    ELSE [s EXCEPT !.nw = n, !.queue = <<n>> \o @, !.last = "queued"]

\* Io::write of datagram number nw + 1; r is what send() made of it: "sent",
\* "block" (WouldBlock, Ok(false)) or "failed" (any other error, or a short
\* send).  send is tried first, whatever the queue holds.
io_write(s, r) ==
    LET n == s.nw + 1 IN
    IF r = "failed" THEN [s EXCEPT !.nw = n, !.last = "write_failed"]
    ELSE IF r = "sent"
    THEN [s EXCEPT !.nw = n, !.wire = Append(@, n), !.last = "sent"]
    ELSE [s EXCEPT !.nw = n, !.queue = <<n>> \o @,
                   !.events = @ \cup {"POLLOUT"}, !.last = "queued"]

\* the k datagrams at the back of the queue, the back first
Back(q, k) == [i \in 1 .. k |-> q[Len(q) + 1 - i]]

\* Entry::flush_write after its assertion: k times send took the datagram
\* at the back and pop_back removed it
flush_write(s, k) ==
    [s EXCEPT !.queue = SubSeq(@, 1, Len(@) - k),
              !.wire = @ \o Back(s.queue, k)]

\* the re-arming at the end of a pass of State::poll
Rearm(s) ==
    [s EXCEPT !.events = IF s.queue # <<>> THEN {"POLLIN", "POLLOUT"}
                         ELSE {"POLLIN"},
              !.last = "polled"]

\* State::poll with the revents rev for the fd; k, the datagrams flush_write
\* sent; r, how the pass ended: "ok", "read_failed" (recv in flush_read
\* returned an error), "write_failed" (send in flush_write did)
state_poll(s, rev, k, r) ==
    IF rev = {} THEN [s EXCEPT !.last = "no_io"]
    ELSE IF rev \cap {"POLLERR", "POLLHUP", "POLLNVAL"} # {}
    THEN [s EXCEPT !.last = "panic"]
    ELSE IF "POLLIN" \in rev /\ r = "read_failed"
    THEN [s EXCEPT !.last = "poll_failed"]
    ELSE IF "POLLOUT" \in rev
    THEN IF s.queue = <<>> THEN [s EXCEPT !.last = "assert"]
         ELSE IF r = "write_failed"
         THEN [flush_write(s, k) EXCEPT !.last = "poll_failed"]
         ELSE Rearm(flush_write(s, k))
    ELSE Rearm(s)

\* a handler writes to the link
IoWrite(r) ==
    /\ io.last \notin {"panic", "assert"}
    /\ io.nw < MaxWrites
    /\ io' = io_write(io, r)
    /\ UNCHANGED <<pvars, wvars, fvars, cvars, uvars, lev, rt>>

\* exec polls.  poll(2) reports the events asked for and the error
\* conditions; a send that fails leaves its datagram in the queue; after an
\* Err of State::poll exec polls no more.
StatePoll(rev, k, r) ==
    /\ io.last \notin {"panic", "assert", "poll_failed"}
    /\ rev \subseteq io.events \cup {"POLLERR"}
    /\ k <= Len(io.queue)
    /\ k > 0 => "POLLOUT" \in rev
    /\ r = "read_failed" => "POLLIN" \in rev /\ k = 0
    /\ r = "write_failed" => "POLLOUT" \in rev /\ k < Len(io.queue)
    /\ io' = state_poll(io, rev, k, r)
    /\ UNCHANGED <<pvars, wvars, fvars, cvars, uvars, lev, rt>>

SendOutcomes == {"sent", "block", "failed"}
ReventChoices == SUBSET {"POLLIN", "POLLOUT", "POLLERR"}
PassOutcomes == {"ok", "read_failed", "write_failed"}

IoInit == Init

IoNext ==
    \/ \E r \in SendOutcomes : IoWrite(r)
    \/ \E rev \in ReventChoices, k \in 0 .. MaxWrites, r \in PassOutcomes :
          StatePoll(rev, k, r)

SpecIo == IoInit /\ [][IoNext]_vars

(***************************************************************************)
(* SpecWindow: guard called on an initially empty window with counters     *)
(* drawn from the word boundaries around one and two window lengths.       *)
(***************************************************************************)

MaxGuards == 3

WordChoices == {0, 1, 126, 127, 128, 129, 255, 256}
BitChoices == {0, 63}
CtrChoices == {w * WORD_LEN + b : w \in WordChoices, b \in BitChoices}

WInit == Init

Guard(n, fok) ==
    /\ calls < MaxGuards
    /\ LET r == guard(win, n, fok) IN
        /\ win' = r.win
        /\ gres' = [n |-> n, fok |-> fok, res |-> r.res, ran |-> r.ran]
        /\ seen' = IF r.res = "Ok" THEN seen \cup {n} ELSE seen
    /\ fed' = fed \cup {n}
    /\ calls' = calls + 1
    /\ UNCHANGED <<pvars, nvars>>

WNext == \E n \in CtrChoices, fok \in BOOLEAN : Guard(n, fok)

SpecWindow == WInit /\ [][WNext]_vars

\* Every pair of counters of S is less than width apart.
SpanWithin(S, width) == \A a \in S, b \in S : b - a < width

\* The number of counters the bit vector holds: 8192.
WindowBits == LEN * WORD_LEN
\* The widest span whose word indices always fit the LEN words behind head.
GuaranteedSpan == (LEN - 1) * WORD_LEN + 1

\* C1: after guard(n, .) succeeded the bit of n is set, and in every later
\* state, whatever guard calls came in between, guard(n, .) is rejected
\* without running its action and without changing the window: as Replay
\* while n is within LEN words of head, as TooOld after that.
C1_ReplayRejected ==
    /\ (gres # None /\ gres.res = "Ok") => BitSet(win, gres.n)
    /\ (gres # None /\ gres.n \in seen /\ gres.res # "Ok") =>
            /\ ~gres.ran
            /\ gres.res \in {"Replay", "TooOld"}
    /\ \A n \in seen : \A fok \in BOOLEAN :
            LET r == guard(win, n, fok) IN
            /\ ~r.ran
            /\ r.win = win
            /\ r.res = (IF win.head - WordIndex(n) < LEN THEN "Replay"
                        ELSE "TooOld")

\* C1 witness: a counter accepted earlier was presented again after the
\* head had moved past its word, and was rejected as a replay.
C1_Witness ==
    /\ gres # None
    /\ gres.n \in seen
    /\ gres.res = "Replay"
    /\ win.head > WordIndex(gres.n)
    /\ Cardinality(seen) >= 2

\* C2 as stated: with every counter fed so far within a span of 8192, guard
\* with a succeeding action accepts n exactly when n was not accepted before.
C2_Span8192 ==
    [][\A n \in CtrChoices :
          (Guard(n, TRUE) /\ SpanWithin(fed', WindowBits))
              => ((gres'.res = "Ok") <=> (n \notin seen))]_vars

\* C2 amended: the same with the span bounded by (LEN - 1) * WORD_LEN + 1 =
\* 8129, i.e. largest minus smallest at most 8128.
C2_Span8129 ==
    [][\A n \in CtrChoices :
          (Guard(n, TRUE) /\ SpanWithin(fed', GuaranteedSpan))
              => ((gres'.res = "Ok") <=> (n \notin seen))]_vars

\* C2 witness: a counter 8128 below the largest one fed was accepted behind
\* the head, with every counter fed within the guaranteed span.
C2_Witness ==
    /\ gres # None
    /\ gres.res = "Ok"
    /\ Max(fed) - gres.n = GuaranteedSpan - 1
    /\ win.head > WordIndex(gres.n)
    /\ SpanWithin(fed, GuaranteedSpan)

(***************************************************************************)
(* The session wheel                                                       *)
(***************************************************************************)

DataOut(pkts) == {i \in 1 .. Len(pkts) : pkts[i].t = "Data"}

\* The Data packet the remote peer sends on the session that wheel.next
\* holds: addressed to the index this side announced in its Response and
\* sealed with that session's key.
ToNext(msg) ==
    /\ wheel.next # None
    /\ msg.idx = wheel.next.nx.sidx
    /\ open(wheel.next.nx.rkey, msg)

\* C4: a Data packet that decrypts and is addressed to the pending responder
\* session by the index this side announced promotes it in that step: prev
\* is the old pair's receive simplex, pair is the session built from next,
\* next is None and every queued payload has left on the new pair.
C4_PromoteNext ==
    [][\A msg \in DataInputs :
          (ToNext(msg) /\ RecvData(msg, {0})) =>
              /\ wheel'.prev = TakePairRecv([wheel |-> wheel])
              /\ wheel'.pair # None
              /\ wheel'.pair.tun.recv.key = wheel.next.nx.rkey
              /\ wheel'.pair.tun.send = wheel.next.nx.skey
              /\ wheel'.next = None
              /\ queue' = <<>>
              /\ Len(out') = Len(queue)
              /\ \A i \in 1 .. Len(queue) :
                    /\ out'[i].t = "Data"
                    /\ out'[i].pl = queue[i]
                    /\ out'[i].key = wheel.next.nx.skey]_vars

\* C5: wheel.pair and wheel.next never hold the same session index.
C5_PairNextDistinct ==
    (wheel.pair # None /\ wheel.next # None) =>
        wheel.pair.idx # wheel.next.idx

\* C6: a session sends with the index the remote peer chose for it (the
\* sender index of the peer's Initiation or Response) and is looked up by the
\* index this side chose (the sender index of its own Response or
\* Initiation); every Data packet emitted carries the sending index of the
\* session that is pair.
C6_SessionIndices ==
    [][/\ \A msg \in InitiationInputs :
            (RecvInitiation(msg, {0}) /\ ev'.res = "ok") =>
                /\ wheel'.next.nx.sidx = msg.idx
                /\ wheel'.next.idx = out'[1].idx
       /\ \A msg \in ResponseInputs :
            (RecvResponse(msg, {0}) /\ ev'.res = "ok") =>
                /\ wheel'.pair.tun.sidx = msg.idx
                /\ wheel'.pair.idx = wheel.sent.idx
       /\ \A i \in DataOut(out') :
            /\ wheel'.pair # None
            /\ out'[i].idx = wheel'.pair.tun.sidx]_vars

(***************************************************************************)
(* Keepalive                                                               *)
(***************************************************************************)

\* C7: after a non-keepalive Data packet was accepted on pair, a keepalive
\* timer is pending with a deadline at most KEEPALIVE_TIMEOUT ahead and no
\* rekey timer is pending.
C7_KeepaliveArmed ==
    [][\A msg \in DataInputs :
          (OnPair(msg) /\ ~msg.ka /\ RecvData(msg, LinkFailures)
              /\ ev'.res = "ok") =>
              /\ timers'.rekey = None
              /\ \E d \in timers'.kaPending :
                    d <= now + KEEPALIVE_TIMEOUT]_vars

\* C8: while a non-keepalive Data packet has been received and nothing was
\* sent since, less than KEEPALIVE_TIMEOUT has passed, or exactly that and
\* the keepalive timer is due: time does not go on without the keepalive.
C8_KeepaliveSent ==
    quiet # None =>
        \/ now - quiet.at < KEEPALIVE_TIMEOUT
        \/ /\ now - quiet.at = KEEPALIVE_TIMEOUT
           /\ now \in timers.kaPending

(***************************************************************************)
(* Initiation timestamps                                                   *)
(***************************************************************************)

\* C10: an Initiation whose timestamp is not greater than the stored one is
\* rejected with no packet emitted and wheel.next and the timestamp as they
\* were; an accepted Initiation raises the stored timestamp, and no step
\* unsets or lowers it.
C10_TimestampGuard ==
    [][/\ \A msg \in InitiationInputs :
            /\ (ev'.op = "initiation" /\ hs.timestamp # None
                   /\ msg.ts <= hs.timestamp.ts
                   /\ RecvInitiation(msg, LinkFailures)) =>
                    /\ ev'.res = "timestamp_expired"
                    /\ out' = <<>>
                    /\ wheel'.next = wheel.next
                    /\ hs'.timestamp = hs.timestamp
            /\ (ev'.op = "initiation" /\ ev'.res = "ok"
                   /\ hs.timestamp # None
                   /\ RecvInitiation(msg, LinkFailures)) =>
                    hs'.timestamp.ts > hs.timestamp.ts
       /\ hs.timestamp # None =>
            /\ hs'.timestamp # None
            /\ hs'.timestamp.ts >= hs.timestamp.ts]_vars

\* C10 witness: with timestamp 2 stored and a responder session pending, an
\* Initiation was rejected for its timestamp.
C10_Witness ==
    /\ ev = [op |-> "initiation", res |-> "timestamp_expired"]
    /\ hs.timestamp = [ts |-> 2]
    /\ wheel.next # None
    /\ out = <<>>

(***************************************************************************)
(* The queue                                                               *)
(***************************************************************************)

Queued(p) == \E i \in 1 .. Len(queue) : queue[i] = p

\* C3: a Response that is accepted empties the queue into Data packets, and
\* under SpecLive, where the outstanding Initiation is answered, every
\* queued payload leaves in a Data packet in the end.
C3_QueueDelivered ==
    /\ [][(ev'.op = "response" /\ ev'.res = "ok") =>
            /\ queue' = <<>>
            /\ \A p \in 1 .. MaxPayloads :
                  Queued(p) => p \in Payloads(out')]_vars
    /\ \A p \in 1 .. MaxPayloads : Queued(p) ~> (p \in Payloads(out))

\* C3 witness: a payload that was queued has left behind the Response, on
\* the session the Response made.
C3_Witness ==
    /\ ev = [op |-> "response", res |-> "ok"]
    /\ Payloads(out) # {}
    /\ queue = <<>>
    /\ wheel.pair # None
    /\ wheel.pair.tun.role = "Initiator"

(***************************************************************************)
(* Rekey on send                                                           *)
(***************************************************************************)

HasInit(pkts) == \E i \in 1 .. Len(pkts) : pkts[i].t = "Init"

\* The session a Data packet of this step left on was established
\* REKEY_AFTER_TIME or more ago.
SentOld ==
    /\ wheel'.pair # None
    /\ now - wheel'.pair.tun.recv.time >= REKEY_AFTER_TIME
\* A Data packet of this step took a counter of REKEY_AFTER_MESSAGES or more.
SentMany ==
    \E i \in DataOut(out') : U64Ge(out'[i].ctr, REKEY_AFTER_MESSAGES)

\* C9 as stated: a handler that sent a Data packet on a session established
\* REKEY_AFTER_TIME or more ago, or with a counter of REKEY_AFTER_MESSAGES or
\* more, also sent an Initiation, unless a handshake attempt was in progress.
C9_RekeyOnSend ==
    [][(DataOut(out') # {} /\ ev'.res = "ok" /\ (SentOld \/ SentMany)) =>
          (timers.rekey_start # None \/ HasInit(out'))]_vars

\* C9 amended: the age counts only for a session this side initiated.
C9_RekeyOnSendInitiator ==
    [][(DataOut(out') # {} /\ ev'.res = "ok"
          /\ ((SentOld /\ wheel'.pair.tun.role = "Initiator") \/ SentMany)) =>
          (timers.rekey_start # None \/ HasInit(out'))]_vars

\* C9 witness: a payload was written on an initiator session of age
\* REKEY_AFTER_TIME with no handshake in progress, and the Initiation
\* followed the Data packet.
C9_Witness ==
    /\ ev = [op |-> "write", res |-> "ok"]
    /\ Len(out) = 2
    /\ out[1].t = "Data"
    /\ out[2].t = "Init"
    /\ wheel.pair # None
    /\ wheel.pair.tun.role = "Initiator"
    /\ now - wheel.pair.tun.recv.time >= REKEY_AFTER_TIME
    /\ ~U64Ge(out[1].ctr, REKEY_AFTER_MESSAGES)

(***************************************************************************)
(* The end of a session's life for sending                                 *)
(***************************************************************************)

\* 2^64 - 2^13
TwoTo64Less8192 == <<TopBase - 1, LimbBase - 1, LimbBase - 2^13>>

\* The write of this step found a session in pair and the link took what it
\* was given.
WroteOnPair == ev'.op = "write" /\ wheel.pair # None /\ AppWrite(NoFailure)

Stored(frs) == {frs[i] : i \in 1 .. Len(frs)}

\* S can be part of a cover: its fragments are not empty, no two overlap,
\* and nothing lies behind a fragment with more unset.
PartialCover(S) ==
    /\ \A a \in S : Len(a.buf) >= 1
    /\ \A a, b \in S : a # b => (end(a) <= b.start \/ end(b) <= a.start)
    /\ \A a, b \in S : ~a.more /\ a # b => end(b) <= a.start

\* S covers [0, L) and ends with more unset.
Covers(S) ==
    /\ PartialCover(S)
    /\ \E a \in S :
          /\ ~a.more
          /\ \A k \in 0 .. end(a) - 1 :
                \E b \in S : b.start <= k /\ k < end(b)

\* The payload the cover S was cut from.
Original(S) ==
    LET last == CHOOSE a \in S : ~a.more IN
    [k \in 1 .. end(last) |->
        LET b == CHOOSE b \in S : b.start < k /\ k <= end(b)
        IN  b.buf[k - b.start]]

\* C12: a fragment that forms part of a cover together with the fragments
\* stored so far is accepted whatever the order of arrival, and when it
\* completes the cover the original payload is delivered.
C12_AnyOrderReassembles ==
    [][\A f \in FragmentInputs :
          (/\ f \notin Stored(frags)
           /\ PartialCover(Stored(frags) \cup {f})
           /\ HandleFragment(f)) =>
              IF Covers(Stored(frags) \cup {f})
              THEN /\ fev'.res = "delivered"
                   /\ fev'.buf = [buf |-> Original(Stored(frags) \cup {f})]
                   /\ frags' = <<>>
              ELSE /\ fev'.res = "stored"
                   /\ Stored(frags') = Stored(frags) \cup {f}]_vars

\* C13: the stored fragments are ordered by start, no two overlap, and only
\* the last one may have more unset.
C13_StoredWellFormed ==
    \A i \in 1 .. Len(frags) - 1 :
        /\ frags[i].start < frags[i + 1].start
        /\ end(frags[i]) <= frags[i + 1].start
        /\ frags[i].more

(***************************************************************************)
(* The IPv4 header checksum                                                *)
(***************************************************************************)

\* C14: write_v4 emits a header for every input, the checksum the receive
\* path takes over the emitted header is zero, and it is not zero over the
\* header with one bit inverted.
C14_ChecksumRoundTrip ==
    /\ emitted # None => ~emitted.out.panic
    /\ verdict # None =>
          /\ ~verdict.out.panic
          /\ verdict.flip = 0 <=> verdict.out.bytes = <<0, 0>>

(***************************************************************************)
(* C15: bind(port, cb) on a bound port fails with "address in use" and     *)
(* leaves the port map, with the callback of the socket that holds the     *)
(* port, as it was; on a free port it succeeds, and every well-formed      *)
(* datagram for the port then reaches cb.                                  *)
(***************************************************************************)
DatagramsTo(port) == SocketWrite(PeerV4, RemotePort, OwnV4, port, <<7>>)

C15_BindInUseOrBinds ==
    [][\A port \in PortChoices, cb \in CallbackChoices :
          Bind(port, cb) =>
              IF Bound(udp, port)
              THEN uev'.res = "in_use" /\ udp' = udp
              ELSE /\ uev'.res = "ok"
                   /\ \A seg \in DatagramsTo(port) :
                         \A r \in recv(udp', PeerV4, seg) :
                            r.res = "delivered" /\ r.cb = cb]_vars

\* a bind with another callback was refused and the holder kept the port
C15_Witness ==
    /\ uev # None
    /\ uev.op = "bind"
    /\ uev.res = "in_use"
    /\ uev.port \in DOMAIN udp.map
    /\ udp.map[uev.port] # uev.cb

(***************************************************************************)
(* C16: bind_eph and connect always come back: with a port of              *)
(* 49152 .. 65535 that was free when they were called, found from the      *)
(* cursor with at most one wrap, or, when every port of the range is       *)
(* bound, with a fatal condition.                                          *)
(***************************************************************************)
C16_EphemeralFinishes ==
    [][\A op \in {"bind_eph", "connect"}, cb \in CallbackChoices :
          BindEph(op, cb) =>
              /\ uev'.res \in {"ok", "fatal"}
              /\ uev'.res = "ok" =>
                    /\ EPHEMERAL <= uev'.port /\ uev'.port <= U16Max
                    /\ ~Bound(udp, uev'.port)
                    /\ uev'.wraps <= 1
                    /\ udp'.map[uev'.port] = cb]_vars

(***************************************************************************)
(* C17: a received UDP segment reaches a socket callback only if it has    *)
(* at least 8 bytes, its length field is its length, its checksum is zero  *)
(* or verifies over the IPv4 pseudo-header, and a socket is bound to its   *)
(* destination port; the callback is then that socket's.  A segment for a  *)
(* port without a socket is dropped and the port map stays as it was.      *)
(***************************************************************************)
\* the sum of the 16-bit big-endian words of b from byte i on, a last odd
\* byte padded with zero
RECURSIVE WordSum(_, _)
WordSum(b, i) ==
    IF i > Len(b) THEN 0
    ELSE 256 * b[i] + (IF i + 1 <= Len(b) THEN b[i + 1] ELSE 0)
         + WordSum(b, i + 2)

\* the one's complement sum over pseudo-header and segment is all ones
Verifies(src, dst, seg) ==
    LET total == WordSum(src \o dst \o <<0, 17>> \o Be16(Len(seg)) \o seg, 1)
    IN  total # 0 /\ total % 65535 = 0

DstPort(seg) == 256 * seg[3] + seg[4]

C18_NoPanicOnInput ==
    [][(lev' # None /\ LinkRecv(lev'.d)) =>
          /\ lev'.res # "panic"
          /\ lev'.res = "dropped" =>
                /\ frags' = frags
                /\ udp' = udp]_vars

(***************************************************************************)
(* C19: every fatal I/O error, in the poll cycle or in a write issued by   *)
(* a handler, sets the loop on its way out: the exit flag is up after it.  *)
(***************************************************************************)
C19_FatalIoShutsDown ==
    [][\A o \in PollOutcomes, k \in 0 .. MaxQueued, idle \in BOOLEAN,
          w \in WriteOutcomes :
          (Poll(o, k, idle, w) /\ (o = "failed" \/ w = "failed")) =>
              rt'.EXIT]_vars

(***************************************************************************)
(* C20: with the SIGINT flag set, the pass that starts at the head of the  *)
(* loop runs the exit closure once and the deferred queue once and leaves  *)
(* the loop without a poll, and the loop comes to that; the exit closure   *)
(* is run at most once and never while the flag is down.                   *)
(***************************************************************************)
C20_ExitOnNextIteration ==
    /\ [][(LoopHead /\ rt.EXIT) =>
              /\ rt'.pc = "done"
              /\ rt'.exits = rt.exits + 1
              /\ rt'.runs = rt.runs + 1
              /\ rt'.polls = rt.polls]_vars
    /\ [](rt.exits > 0 => rt.EXIT /\ rt.exits = 1 /\ rt.pc = "done")
    /\ [][rt.pc = "done" => rt' = rt]_vars
    /\ ((rt.EXIT /\ rt.pc = "head") ~> (rt.pc = "done" /\ rt.exits = 1))

\* the flag went up during a poll, and the loop has left through the exit
\* closure after that poll
C20_Witness ==
    /\ rt.pc = "done"
    /\ rt.exits = 1
    /\ rt.polls > 0
    /\ rt.last = "exit"

(***************************************************************************)
(* C21: guard(n, f) with a failing f returns failure and leaves bits and   *)
(* head as they were, also for n beyond the head; guard(n, .) with a       *)
(* succeeding action right after it is accepted.                           *)
(***************************************************************************)
C21_FailedActionKeepsWindow ==
    [][\A n \in CtrChoices :
          Guard(n, FALSE) =>
              /\ gres'.res # "Ok"
              /\ win' = win
              /\ seen' = seen
              /\ gres'.ran => guard(win', n, TRUE).res = "Ok"]_vars

\* the action failed for a counter in a word beyond the head of a window
\* that holds a counter
C21_Witness ==
    /\ gres # None
    /\ ~gres.fok
    /\ gres.ran
    /\ gres.res = "ActionErr"
    /\ WordIndex(gres.n) > win.head
    /\ seen # {}

(***************************************************************************)
(* C22: a Response for the outstanding Initiation (its receiver index is   *)
(* wheel.sent.idx) that authenticates rotates the wheel in that step: prev *)
(* is the receive simplex of the old pair, or empty without one, pair is a *)
(* new initiator session under sent.idx, sent is None, and every queued    *)
(* payload leaves on the new pair.  A Response for another index, or with  *)
(* nothing outstanding, changes nothing.                                   *)
(***************************************************************************)
ForSent(msg) == wheel.sent # None /\ wheel.sent.idx = msg.rcv_idx

C22_ResponseRotates ==
    [][\A msg \in ResponseInputs :
          (ev'.op = "response" /\ RecvResponse(msg, LinkFailures)) =>
              IF ForSent(msg)
              THEN msg.auth =>
                     /\ wheel'.prev = TakePairRecv([wheel |-> wheel])
                     /\ wheel'.pair # None
                     /\ wheel'.pair.idx = wheel.sent.idx
                     /\ wheel'.pair.tun.role = "Initiator"
                     /\ wheel'.pair.tun.recv.key = wheel.sent.idx
                     /\ wheel'.pair.tun.recv.win = WindowEmpty
                     /\ wheel'.sent = None
                     /\ wheel'.next = wheel.next
                     /\ ev'.res = "ok" =>
                           /\ queue' = <<>>
                           /\ Len(out') = Len(queue)
                           /\ \A i \in 1 .. Len(queue) :
                                 /\ out'[i].t = "Data"
                                 /\ out'[i].pl = queue[i]
                                 /\ out'[i].key = wheel.sent.idx
                                 /\ out'[i].idx = wheel'.pair.tun.sidx
              ELSE /\ UNCHANGED <<wheel, queue, timers, hs>>
                   /\ out' = <<>>
                   /\ ev'.res # "ok"]_vars

\* a Response was accepted while a session was in pair: its receive simplex
\* is in prev, under the index it had
C22_Witness ==
    /\ ev = [op |-> "response", res |-> "ok"]
    /\ wheel.prev # None
    /\ wheel.pair # None
    /\ wheel.pair.tun.role = "Initiator"
    /\ wheel.pair.idx # wheel.prev.idx
    /\ wheel.sent = None

(***************************************************************************)
(* C23: a Data packet addressed to the index of wheel.prev is only         *)
(* decrypted and checked against the window of prev: no timer changes,     *)
(* pair, next, sent and the queue stay as they are, and no rekey starts;   *)
(* and once a session has left pair in a rotation, a Data packet the peer  *)
(* sent under it that has not been seen yet is still accepted in this way. *)
(***************************************************************************)
\* the index this side announced for a session, which the peer writes into
\* the Data packets it sends under it
AnnouncedIdx(p) == IF p.tun.role = "Initiator" THEN p.idx ELSE p.tun.sidx

\* a handshake step has moved the session of pair out of pair
LeftPair ==
    /\ ev'.op \in {"response", "data"}
    /\ wheel.pair # None
    /\ wheel'.pair # wheel.pair
    /\ wheel'.pair = None \/ wheel'.pair.tun.recv.time # wheel.pair.tun.recv.time
                          \/ wheel'.pair.tun.role # wheel.pair.tun.role

\* only the window of prev differs between the two peers
OnlyPrevWindow(a, b) ==
    /\ b.wheel = [a.wheel EXCEPT !.prev = b.wheel.prev]
    /\ b.wheel.prev # None
    /\ b.wheel.prev = [a.wheel.prev EXCEPT !.sx.win = b.wheel.prev.sx.win]
    /\ b.timers = a.timers
    /\ b.queue = a.queue
    /\ b.hs = a.hs
    /\ b.out = <<>>

C23_PrevDecryptOnly ==
    [][/\ \A msg \in DataInputs :
             (/\ ev'.op = "data"
              /\ wheel.prev # None
              /\ msg.idx = wheel.prev.idx
              /\ RecvData(msg, LinkFailures)) =>
                 /\ timers' = timers
                 /\ queue' = queue
                 /\ hs' = hs
                 /\ out' = <<>>
                 /\ wheel' = [wheel EXCEPT !.prev = wheel'.prev]
                 /\ wheel'.prev = [wheel.prev EXCEPT
                                      !.sx.win = wheel'.prev.sx.win]
       /\ LeftPair =>
             \A ctr \in CtrInputs :
                LET old == wheel.pair
                    m == [idx |-> AnnouncedIdx(old), ctr |-> ctr,
                          key |-> old.tun.recv.key, ka |-> FALSE]
                    after == PeerState(0, 0)'
                    r == PeerHandleData(after, m)
                IN  (/\ now' - old.tun.recv.time < REJECT_AFTER_TIME
                     /\ guard(old.tun.recv.win, U64ToNat(ctr), TRUE).res = "Ok")
                       => /\ r.ok
                          /\ OnlyPrevWindow(after, r.st)
                          /\ r.st.wheel.prev.sx.win =
                                guard(old.tun.recv.win, U64ToNat(ctr),
                                      TRUE).win]_vars

(***************************************************************************)
(* C24: a write emits a Data packet only when pair exists and has not      *)
(* expired for sending.  Otherwise a payload is not sent but appended to   *)
(* the queue and a rekey is started, and a keepalive is neither sent nor   *)
(* queued and the call fails.                                              *)
(***************************************************************************)
Usable == wheel.pair # None /\ ~is_send_expired(wheel.pair.tun, [now |-> now])

C24_WriteNeedsUsablePair ==
    [][/\ (ev'.op \in {"write", "keepalive"} /\ DataOut(out') # {}) => Usable
       /\ (ev'.op = "write" /\ ~Usable) =>
             /\ DataOut(out') = {}
             /\ queue' = Append(queue, nwritten')
             /\ wheel'.pair = None
             /\ ev'.res = "ok" =>
                   /\ is_rekeying([timers |-> timers'])
                   /\ ~is_rekeying([timers |-> timers]) =>
                          HasInit(out') /\ wheel'.sent # None
       /\ (ev'.op = "keepalive" /\ ~Usable) =>
             /\ out' = <<>>
             /\ queue' = queue
             /\ wheel' = wheel
             /\ ev'.res = "keepalive_failed"]_vars

\* a payload was written while pair had expired for sending: it is queued
\* and the session is gone
C24_Witness ==
    /\ ev = [op |-> "write", res |-> "ok"]
    /\ queue # <<>>
    /\ wheel.pair = None
    /\ wheel.sent # None
    /\ now >= REKEY_AFTER_TIME
    /\ DataOut(out) = {}

(***************************************************************************)
(* C25: a Data packet for a session of the wheel, whether it is pair, prev *)
(* or next, is rejected as expired when the session was established        *)
(* REJECT_AFTER_TIME or more ago or the counter of the packet is           *)
(* REJECT_AFTER_MESSAGES or more: nothing is delivered, no window changes  *)
(* and the wheel does not rotate.                                          *)
(***************************************************************************)
\* when the session a Data packet is looked up under was established, in
\* the order Peer::handle_data tries the wheel
TargetTime(msg) ==
    IF wheel.pair # None /\ msg.idx = wheel.pair.idx
    THEN [at |-> wheel.pair.tun.recv.time]
    ELSE IF wheel.prev # None /\ msg.idx = wheel.prev.idx
    THEN [at |-> wheel.prev.sx.time]
    ELSE IF wheel.next # None /\ msg.idx = wheel.next.idx
    THEN [at |-> wheel.next.nx.time]
    ELSE None

PastReject(msg) ==
    /\ TargetTime(msg) # None
    /\ \/ now - TargetTime(msg).at >= REJECT_AFTER_TIME
       \/ U64Ge(msg.ctr, REJECT_AFTER_MESSAGES)

C25_ExpiredRejected ==
    [][\A msg \in DataInputs :
          (ev'.op = "data" /\ PastReject(msg) /\ RecvData(msg, LinkFailures))
             => /\ ev'.res # "ok"
                /\ wheel' = wheel
                /\ out' = <<>>
                /\ UNCHANGED <<queue, timers>>]_vars

(***************************************************************************)
(* C26: after a Data packet with a payload is sent no keepalive timer is   *)
(* pending and the rekey timer is pending for now + KEEPALIVE_TIMEOUT +    *)
(* REKEY_TIMEOUT; after a keepalive is sent the keepalive slot is cleared  *)
(* and the rekey timer is as it was.                                       *)
(***************************************************************************)
PayloadSent == \E i \in DataOut(out') : out'[i].pl # 0
KeepaliveSent == ev'.op = "keepalive" /\ DataOut(out') # {}

AfterPayload ==
    PayloadSent =>
       /\ timers'.kaPending = {}
       /\ timers'.keepalive = None
       /\ timers'.rekey = [at |-> now + KEEPALIVE_TIMEOUT + REKEY_TIMEOUT]

\* C26 as stated: a keepalive that is sent leaves the rekey timer and the
\* start of the handshake attempt as they were.
C26_KeepaliveLeavesRekey ==
    [][/\ AfterPayload
       /\ KeepaliveSent =>
             /\ timers'.keepalive = None
             /\ timers'.kaPending \subseteq timers.kaPending
             /\ timers'.rekey = timers.rekey
             /\ timers'.rekey_start = timers.rekey_start]_vars

\* C26, amended: the rekey timer is as it was unless the keepalive started
\* a handshake, in which case it is the timer of the Initiation.
C26_SendDataTimers ==
    [][/\ AfterPayload
       /\ KeepaliveSent =>
             /\ timers'.keepalive = None
             /\ timers'.kaPending \subseteq timers.kaPending
             /\ IF HasInit(out')
                THEN /\ ~is_rekeying([timers |-> timers])
                     /\ SendRekeyDue(wheel.pair.tun, [now |-> now])
                     /\ timers'.rekey_start = [at |-> now]
                     /\ \E j \in JitterChoices :
                           timers'.rekey = [at |->
                              Max({now + REKEY_TIMEOUT + j} \cup
                                  (IF timers.rekey = None THEN {}
                                   ELSE {timers.rekey.at}))]
                ELSE /\ timers'.rekey = timers.rekey
                     /\ timers'.rekey_start = timers.rekey_start]_vars

\* a keepalive has left on an initiator session past REKEY_AFTER_TIME and
\* started a handshake: the rekey timer is that of the Initiation
C26_Witness ==
    /\ ev = [op |-> "keepalive", res |-> "ok"]
    /\ DataOut(out) # {}
    /\ HasInit(out)
    /\ timers.keepalive = None
    /\ timers.rekey # None
    /\ timers.rekey.at <= now + REKEY_TIMEOUT + 332
    /\ timers.rekey_start = [at |-> now]

(***************************************************************************)
(* C27: whenever an Initiation is sent, rekey_start becomes now if it was  *)
(* unset and stays otherwise, and the rekey timer is pending afterwards    *)
(* for now + REKEY_TIMEOUT + jitter with jitter below 333 ms, so that the  *)
(* retry fires at most 5.333 s later, whatever sent the Initiation.        *)
(***************************************************************************)
C27_InitiationArmsRetry ==
    [][HasInit(out') =>
          /\ timers'.rekey_start =
                IF timers.rekey_start = None THEN [at |-> now]
                ELSE timers.rekey_start
          /\ timers'.rekey # None
          /\ timers'.rekey.at >= now + REKEY_TIMEOUT
          /\ timers'.rekey.at < now + REKEY_TIMEOUT + 333]_vars

(***************************************************************************)
(* C28: when the rekey timer fires REKEY_ATTEMPT_TIME or more after        *)
(* rekey_start the attempt is given up: no Initiation is sent and no retry *)
(* is scheduled.  When it fires earlier a new Initiation is sent.          *)
(***************************************************************************)
C28_GivesUpAfterAttemptTime ==
    [][ev'.op = "rekey" =>
          IF rekey_elapsed([timers |-> timers, now |-> now])
          THEN /\ ~HasInit(out')
               /\ timers'.rekey = None
               /\ wheel'.sent = wheel.sent
          ELSE ev'.res = "ok" => HasInit(out')]_vars

(***************************************************************************)
(* C29: when a Response for the outstanding Initiation is accepted,        *)
(* rekey_start becomes None, the rekey timer of the handshake is deleted   *)
(* and a keepalive is scheduled for now.  A payload sent before it fires,  *)
(* such as one drained from the queue, cancels it; otherwise it fires and  *)
(* an empty Data packet leaves on the new session.                         *)
(***************************************************************************)
\* the keepalive the timer sends if it fires in the state a step leaves
KeepaliveNext == PeerWrite(PeerState(0, 0)', 0, TRUE)

C29_ResponseSchedulesKeepalive ==
    [][(ev'.op = "response" /\ ev'.res = "ok") =>
          /\ timers'.rekey_start = None
          /\ IF PayloadSent
             THEN /\ timers'.kaPending = {}
                  /\ timers'.keepalive = None
             ELSE /\ timers'.rekey = None
                  /\ timers'.keepalive = [at |-> now]
                  /\ timers'.kaPending = {now}
                  /\ KeepaliveNext.ok
                  /\ Len(KeepaliveNext.st.out) = 1
                  /\ KeepaliveNext.st.out[1].t = "Data"
                  /\ KeepaliveNext.st.out[1].pl = 0
                  /\ KeepaliveNext.st.out[1].key = wheel'.pair.tun.send]_vars

(***************************************************************************)
(* C30: when an accepted fragment completes a packet, the packet is        *)
(* delivered once and the entry of its key leaves the store, so that the   *)
(* next fragment with that key starts a new reassembly; when the packet is *)
(* not complete yet, nothing is delivered and the entry stays.             *)
(***************************************************************************)
RECURSIVE Joined(_)
Joined(frs) == IF frs = <<>> THEN <<>> ELSE Head(frs).buf \o Joined(Tail(frs))

\* the fragments are a whole packet: the one that lies last has more unset,
\* and every fragment starts at 0 or where another one ends
Whole(S) ==
    /\ \E l \in S :
          /\ ~l.more
          /\ \A g \in S : g = l \/ end(g) <= l.start
    /\ \A g \in S : \/ g.start = 0
                    \/ \E h \in S : h # g /\ end(h) = g.start

Held(frs) == {frs[i] : i \in 1 .. Len(frs)}

C30_CompleteDeliveredOnce ==
    [][\A f \in FragmentInputs :
          HandleFragment(f) =>
             /\ fev'.res = "delivered" <=>
                   (fev'.res # "rejected" /\ Whole(Held(frags) \cup {f}))
             /\ fev'.res = "delivered" =>
                   /\ frags' = <<>>
                   /\ fev'.buf = [buf |-> Joined(try_insert(frags, f).frs)]
                   /\ \A g \in FragmentInputs :
                         handle_fragment(frags', g) =
                            [frs |-> <<g>>,
                             fev |-> [res |-> "stored", buf |-> None]]
             /\ fev'.res = "stored" =>
                   /\ fev'.buf = None
                   /\ Held(frags') = Held(frags) \cup {f}
             /\ fev'.res = "rejected" =>
                   /\ fev'.buf = None
                   /\ frags' = frags]_vars

\* a packet of two fragments has been delivered and its entry is gone
C30_Witness ==
    /\ fev # None
    /\ fev.res = "delivered"
    /\ Len(fev.buf.buf) >= 2
    /\ frags = <<>>

(***************************************************************************)
(* C31                                                                     *)
(***************************************************************************)

\* BigEndian<v4::Fragment> of the packet b: the 13-bit ofst field and the
\* more flag of bytes 7 and 8
OfstField(b) == 256 * (b[7] % 32) + b[8]
MoreField(b) == (b[7] \div 32) % 2 = 1

\* the datagram of the last LinkRecv carried an IPv4 packet that recv_v4
\* passed on, to the transport or to the reassembly
PassedOn ==
    /\ lev # None
    /\ lev.layer \in {"udp", "fragment"}
    /\ Len(lev.d.plain) >= HeaderSize

\* C31: a packet that IPv4 receive passes on goes to the transport when its
\* fragment offset is 0 and its more flag is unset; every other packet goes
\* to the reassembly, as a fragment with the packet's more flag whose start
\* is 8 times the 13-bit offset field:
\* with nothing stored before, the reassembly holds exactly that fragment.
C31_FragmentStartTimesEight ==
    [][(lev' # None /\ frags = <<>> /\ LinkRecv(lev'.d) /\ PassedOn')
        => LET b == lev'.d.plain
               n == 4 * (b[1] % 16)
           IN  IF OfstField(b) = 0 /\ ~MoreField(b)
               THEN lev'.layer = "udp" /\ frags' = <<>>
               ELSE /\ lev'.layer = "fragment"
                    /\ frags' = <<[more |-> MoreField(b),
                                   start |-> 8 * OfstField(b),
                                   buf |-> SubSeq(b, n + 1, Len(b))]>>]_vars

(***************************************************************************)
(* C32: between the handlers, after every poll pass and every Io::write,   *)
(* the interest set of the fd holds POLLIN, and holds POLLOUT exactly when *)
(* the write queue is not empty; flush_write is not entered with an empty  *)
(* queue, its assertion does not fail.                                     *)
(***************************************************************************)
C32_InterestMatchesQueue ==
    /\ "POLLIN" \in io.events
    /\ ("POLLOUT" \in io.events) <=> (io.queue # <<>>)
    /\ io.last # "assert"

\* a poll pass sent part of the queue and re-armed POLLOUT for the rest
C32_Witness ==
    /\ io.last = "polled"
    /\ io.queue # <<>>
    /\ io.wire # <<>>
    /\ io.wire[Len(io.wire)] < io.queue[Len(io.queue)]
    /\ "POLLOUT" \in io.events

(***************************************************************************)
(* C39: the datagrams written to the link through Io::write leave the      *)
(* socket in the order in which they were written, also when earlier ones  *)
(* still wait in the write queue.                                          *)
(***************************************************************************)
C39_WireInWriteOrder ==
    \A i \in 1 .. Len(io.wire), j \in 1 .. Len(io.wire) :
        i < j => io.wire[i] < io.wire[j]

(***************************************************************************)
(* C33: the timeout of each poll is 0 when deferred or idle work is        *)
(* pending and otherwise the time to the next timer, in milliseconds; poll *)
(* is called without a timeout only when neither a timer nor deferred work *)
(* is pending and an fd is registered; with no timer, no deferred work and *)
(* no fd the loop exits.                                                   *)
(***************************************************************************)
C33_PollTimeout ==
    /\ [](rt.pc = "poll" /\ rt.last # "exit" =>
            /\ rt.idle_pending => rt.ms = 0
            /\ (~rt.idle_pending /\ rt.wait # None) =>
                    /\ rt.ms >= 0
                    /\ rt.ms \div 1000 = rt.wait.secs
                    /\ rt.ms % 1000 = rt.wait.nanos \div 1000000
            /\ rt.ms < 0 => ~rt.idle_pending /\ rt.wait = None /\ rt.io)
    /\ [][\A wait \in WaitChoices :
            (rt.pc = "head" /\ ~rt.EXIT /\ rt' = head(rt, wait)) =>
                ((rt'.pc = "done") <=>
                    (~rt.idle_pending /\ wait = None /\ ~rt.io))]_vars

(***************************************************************************)
(* C36: a Response for the outstanding Initiation that does not            *)
(* authenticate is dropped with the peer as it was: prev, pair, next and   *)
(* sent, the queue and the timers are unchanged and nothing is emitted.    *)
(***************************************************************************)
C36_BadResponseChangesNothing ==
    [][\A msg \in ResponseInputs :
          (/\ ev'.op = "response"
           /\ ~msg.auth
           /\ ForSent(msg)
           /\ RecvResponse(msg, LinkFailures)) =>
              /\ ev'.res # "ok"
              /\ UNCHANGED <<wheel, queue, timers>>
              /\ out' = <<>>]_vars

(***************************************************************************)
(* C37: whenever a handshake attempt is in progress (rekey_start is set,   *)
(* so that a rekey on use sends no Initiation), a rekey timer is pending:  *)
(* the attempt has a follow-up scheduled.                                  *)
(***************************************************************************)
C37_AttemptHasRekeyTimer ==
    timers.rekey_start # None => timers.rekey # None

(***************************************************************************)
(* C34: no send key is used twice with the same counter: no Data packet    *)
(* handed to the link carries a (send key, counter) that an earlier Data   *)
(* packet carried, whatever handshakes, rotations and promotions came in   *)
(* between, and the Data packets of one handler differ in it.              *)
(***************************************************************************)
C34_NonceNeverReused ==
    [][\A i \in DataOut(out') :
          /\ <<out'[i].key, out'[i].ctr>> \notin hist.used
          /\ \A j \in DataOut(out') :
                (out'[j].key = out'[i].key /\ out'[j].ctr = out'[i].ctr)
                    => j = i]_vars

(***************************************************************************)
(* C35: no Data packet is accepted and forwarded twice: a packet with the  *)
(* receive key and the counter of a packet that was forwarded before is    *)
(* rejected, whichever slot of the wheel its index matches.                *)
(***************************************************************************)
C35_NoDataAcceptedTwice ==
    [][\A msg \in DataInputs :
          (/\ ev'.op = "data"
           /\ ~msg.ka
           /\ <<msg.key, msg.ctr>> \in hist.taken
           /\ RecvData(msg, NoFailure)) => ev'.res # "ok"]_vars

(***************************************************************************)
(* C38: when the queue is drained, after a Response that completes the     *)
(* handshake or a Data packet that promotes wheel.next, every queued       *)
(* payload leaves exactly once in a Data packet, in the order of the       *)
(* queue, and the queue is empty afterwards.                               *)
(***************************************************************************)

\* the payloads of the Data packets among pkts, in their order
PayloadSeq(pkts) ==
    LET d == SelectSeq(pkts, LAMBDA p : p.t = "Data" /\ p.pl # 0)
    IN  [i \in 1 .. Len(d) |-> d[i].pl]

\* the Data packet takes the third arm of Peer::handle_data and opens
ViaNext(msg) ==
    /\ wheel.pair = None \/ msg.idx # wheel.pair.idx
    /\ wheel.prev = None \/ msg.idx # wheel.prev.idx
    /\ wheel.next # None
    /\ msg.idx = wheel.next.idx
    /\ open(wheel.next.nx.rkey, msg)

C38_QueueDrainedInOrder ==
    [][/\ \A msg \in ResponseInputs :
            (/\ ev'.op = "response"
             /\ ForSent(msg)
             /\ msg.auth
             /\ RecvResponse(msg, LinkFailures)) =>
                /\ queue' = <<>>
                /\ PayloadSeq(out') = queue
       /\ \A msg \in DataInputs :
            (/\ ev'.op = "data"
             /\ ViaNext(msg)
             /\ RecvData(msg, LinkFailures)) =>
                /\ queue' = <<>>
                /\ PayloadSeq(out') = queue]_vars

(***************************************************************************)
(* C40: each binding of a UDP port is removed exactly once, by the         *)
(* deferred removal that follows the drop of its socket handle: for every  *)
(* sequence of bind, clone and drop the assertion of the removal holds,    *)
(* and no removal takes away the binding of a later bind of the port.      *)
(***************************************************************************)
C40_BindingRemovedOnce ==
    /\ socks.last \notin {"assert", "stolen"}
    /\ \A h \in socks.live :
          h.port \in DOMAIN socks.owner /\ socks.owner[h.port] = h.gen

====
